---- MODULE Spec2Model ----
(***************************************************************************)
(* Model of the skill trust pipeline: the versioned registry               *)
(* (src/src/registry.py), the rollbacker (src/src/rollback.py), the        *)
(* promoter (src/src/promote.py), the evolution controller                 *)
(* (src/src/night_evolver.py) and the audit log (src/src/audit.py).        *)
(*                                                                         *)
(* Skill names and version strings are numbered 1..MaxSkills and           *)
(* 1..MaxVersions.  A datetime is a positive integer; None is 0 for        *)
(* nullable datetimes and nullable version strings alike.                  *)
(***************************************************************************)
EXTENDS Integers, Sequences, FiniteSets, TLC

(* ------------------------------ bounds --------------------------------- *)
MaxSkills == 1       \* skill names
MaxVersions == 2     \* version strings
MaxClock == 2        \* distinct values of datetime.now()
MaxRollbacks == 2    \* rollback_skill calls that write the audit log

Names == 1..MaxSkills
Versions == 1..MaxVersions
Times == 1..MaxClock
None == 0

(* ---------------------------- data model ------------------------------- *)
\* disabled_reason: None, f"Superseded by {version}" or f"Rollback to {version}"
NoReason == [kind |-> "None", version |-> None]

Reason(kind, version) == [kind |-> kind, version |-> version]

\* ValidationResult(): ast_gate, sandbox and promote_gate all None
NoGate == [present |-> FALSE, passed |-> "None", skipped |-> FALSE, violations |-> 0]

ValidationResult == [ast_gate |-> NoGate, sandbox |-> NoGate, promote_gate |-> << >>]

SkillVersion(version, code_hash, manifest_hash, created_at, validation) ==
    [version |-> version,
     code_hash |-> code_hash,
     manifest_hash |-> manifest_hash,
     created_at |-> created_at,
     status |-> "staging",
     validation |-> validation,
     promoted_at |-> None,
     disabled_at |-> None,
     disabled_reason |-> NoReason]

SkillEntry(name) ==
    [name |-> name, current_prod |-> None, current_staging |-> None, versions |-> << >>]

\* RegistryData(): no skills; updated_at is overwritten by every save
RegistryData == [skills |-> << >>, updated_at |-> None]

(* --------------------------- the registry ------------------------------ *)
\* The registry file: "missing", "partial" (opened for writing, content not
\* yet complete) or the RegistryData last written in full.
Missing == [state |-> "missing", data |-> RegistryData]

Partial == [state |-> "partial", data |-> RegistryData]

File(data) == [state |-> "complete", data |-> data]

\* Registry.save: data.updated_at = datetime.now(), then the file is rewritten
save(data, t) == [data EXCEPT !.updated_at = t]

add_staging_PointerOnly(data, name, version, code_hash, manifest_hash, validation, t) ==
    LET skills1 == IF name \notin DOMAIN data.skills
                   THEN (name :> SkillEntry(name)) @@ data.skills
                   ELSE data.skills
    IN [data EXCEPT !.skills = [skills1 EXCEPT ![name] = [@ EXCEPT !.current_staging = version]]]

\* Registry.add_staging between load and save; t is created_at
add_staging(data, name, version, code_hash, manifest_hash, validation, t) ==
    LET skills1 == IF name \notin DOMAIN data.skills
                   THEN (name :> SkillEntry(name)) @@ data.skills
                   ELSE data.skills
        sv == SkillVersion(version, code_hash, manifest_hash, t, validation)
    IN [data EXCEPT !.skills =
          [skills1 EXCEPT ![name] =
             [@ EXCEPT !.versions = (version :> sv) @@ @,
                       !.current_staging = version]]]

promotable_WhateverItsStatus(skill_version) == TRUE

\* Registry.promote goes on only for a version whose status is staging
promotable(skill_version) == skill_version.status = "staging"

\* Registry.promote between load and save; t1 is disabled_at of the old prod,
\* t2 is promoted_at.  ok = FALSE is "return False" (nothing saved).
promote(data, name, version, t1, t2) ==
    IF name \notin DOMAIN data.skills THEN [ok |-> FALSE, data |-> data]
    ELSE LET entry == data.skills[name] IN
    IF version \notin DOMAIN entry.versions THEN [ok |-> FALSE, data |-> data]
    ELSE IF ~promotable(entry.versions[version]) THEN [ok |-> FALSE, data |-> data]
    ELSE
      LET hasOld == entry.current_prod # None /\ entry.current_prod \in DOMAIN entry.versions
          versions1 == IF hasOld
                       THEN [entry.versions EXCEPT ![entry.current_prod] =
                               [@ EXCEPT !.status = "disabled",
                                         !.disabled_at = t1,
                                         !.disabled_reason = Reason("Superseded by", version)]]
                       ELSE entry.versions
          versions2 == [versions1 EXCEPT ![version] =
                          [@ EXCEPT !.status = "prod", !.promoted_at = t2]]
          entry2 == [entry EXCEPT !.versions = versions2,
                                  !.current_prod = version,
                                  !.current_staging =
                                      IF entry.current_staging = version THEN None ELSE @]
      IN [ok |-> TRUE, data |-> [data EXCEPT !.skills[name] = entry2]]

\* Registry.rollback between load and save; t1 is disabled_at of the version
\* that was prod.  ok = FALSE is "return False" (nothing saved).
rollback(data, name, target_version, t1) ==
    IF name \notin DOMAIN data.skills THEN [ok |-> FALSE, data |-> data]
    ELSE LET entry == data.skills[name] IN
    IF target_version \notin DOMAIN entry.versions THEN [ok |-> FALSE, data |-> data]
    ELSE IF entry.versions[target_version].status = "staging"
            /\ entry.versions[target_version].promoted_at = None
    THEN [ok |-> FALSE, data |-> data]
    ELSE
      LET versions1 == IF entry.current_prod # None /\ entry.current_prod # target_version
                       THEN [entry.versions EXCEPT ![entry.current_prod] =
                               [@ EXCEPT !.status = "disabled",
                                         !.disabled_at = t1,
                                         !.disabled_reason = Reason("Rollback to", target_version)]]
                       ELSE entry.versions
          versions2 == [versions1 EXCEPT ![target_version] = [@ EXCEPT !.status = "prod"]]
          entry2 == [entry EXCEPT !.versions = versions2, !.current_prod = target_version]
      IN [ok |-> TRUE, data |-> [data EXCEPT !.skills[name] = entry2]]

(* ----------------------------- audit log ------------------------------- *)
\* One line of the audit log: [OPERATION] and its key=value pairs.  A pair
\* whose value is None is left out of the line; here the field stays None.
\* The line's timestamp has a resolution of one second and is not modelled.
AuditLine(operation, kwargs) == [operation |-> operation, kwargs |-> kwargs]

count(lines, operations) ==
    Cardinality({i \in 1..Len(lines) : lines[i].operation \in operations})

(* ---------------------------- the rollbacker --------------------------- *)
\* the step of rollback_skill that raises an OSError: the write of the DISABLE
\* line, the registry save, the write of the ROLLBACK line, or none
RollbackFaults == {"none", "DISABLE", "save", "ROLLBACK"}

\* from_version: the prior prod version, or the string "none" when there is
\* none (a record, so that the string and a version are told apart)
from_version(current_prod_version) ==
    IF current_prod_version = None
    THEN [none |-> TRUE, version |-> None]
    ELSE [none |-> FALSE, version |-> current_prod_version]

disables_AlsoTheTarget(current_prod_version, target_version) == current_prod_version # None

\* rollback_skill disables the current prod version: there is one and it is
\* not the target
disables(current_prod_version, target_version) ==
    current_prod_version # None /\ current_prod_version # target_version

rollback_reason_Superseded(target_version) == Reason("Superseded by", target_version)

\* the disabled_reason rollback_skill gives the version it disables
rollback_reason(target_version) == Reason("Rollback to", target_version)

never_promoted_NoGuard(target) == FALSE

\* the target rollback_skill refuses: a staging version that was never prod
never_promoted(target) == target.status = "staging" /\ target.promoted_at = None

\* rollback_skill: raises is the exception it raises ("none" when it returns
\* True), saved whether registry.save wrote the file, data the registry it
\* saves, lines the audit lines it writes (the DISABLE line before the save,
\* the ROLLBACK line after it).
rollback_skill(data, skill_name, target_version, t1, fault) ==
    LET result(raises, saved, data2, lines) ==
            [raises |-> raises, saved |-> saved, data |-> data2, lines |-> lines]
    IN
    IF skill_name \notin DOMAIN data.skills
    THEN result("Skill not found", FALSE, data, << >>)
    ELSE LET entry == data.skills[skill_name] IN
    IF target_version \notin DOMAIN entry.versions
    THEN result("Version not found", FALSE, data, << >>)
    ELSE IF never_promoted(entry.versions[target_version])
    THEN result("never promoted", FALSE, data, << >>)
    ELSE
      LET current_prod_version == entry.current_prod
          disable == disables(current_prod_version, target_version)
          versions1 == IF disable
                       THEN [entry.versions EXCEPT ![current_prod_version] =
                               [@ EXCEPT !.status = "disabled",
                                         !.disabled_at = t1,
                                         !.disabled_reason = rollback_reason(target_version)]]
                       ELSE entry.versions
          versions2 == [versions1 EXCEPT ![target_version] = [@ EXCEPT !.status = "prod"]]
          entry2 == [entry EXCEPT !.versions = versions2, !.current_prod = target_version]
          data2 == [data EXCEPT !.skills[skill_name] = entry2]
          DISABLE == AuditLine("DISABLE",
                               [skill |-> skill_name, version |-> current_prod_version,
                                reason |-> rollback_reason(target_version)])
          ROLLBACK == AuditLine("ROLLBACK",
                                [skill |-> skill_name,
                                 from |-> from_version(current_prod_version),
                                 to |-> target_version])
          disabled == IF disable THEN <<DISABLE>> ELSE << >>
      IN
      IF disable /\ fault = "DISABLE" THEN result("OSError", FALSE, data, << >>)
      ELSE IF fault = "save" THEN result("OSError", FALSE, data, disabled)
      ELSE IF fault = "ROLLBACK" THEN result("OSError", TRUE, data2, disabled)
      ELSE result("none", TRUE, data2, Append(disabled, ROLLBACK))

\* the rollback_skill calls that wrote the lines: each wrote a ROLLBACK line,
\* or a DISABLE line that no ROLLBACK line follows
rollback_calls(lines) ==
    Cardinality({i \in 1..Len(lines) :
        \/ lines[i].operation = "ROLLBACK"
        \/ /\ lines[i].operation = "DISABLE"
           /\ (i = Len(lines) \/ lines[i + 1].operation # "ROLLBACK")})

(* ------------------------------- state --------------------------------- *)
VARIABLES
    registry_file,   \* content of the registry JSON file
    audit_log,       \* the lines of the audit log file, oldest first
    clock,           \* the last value datetime.now() returned
    last,            \* the call that returned last, and what it returned
    queue_file,      \* content of the nightly queue JSON file
    staging_tree,    \* <staging>/<name>/<version>/ -> the files written there
    prod_tree,       \* <prod>/<name>/<version>/ -> the files copied there
    run,             \* the evolve call in progress: its locals
    conc,            \* the calls in progress in concurrent processes: their locals
    gate,            \* the run_gate call in progress: its locals
    writers,         \* the bytes of the audit log file, and the log calls in progress
    loader           \* a SkillLoader: its cache

registry_vars == <<registry_file, audit_log, clock>>

pipeline_vars == <<queue_file, staging_tree, prod_tree, run, conc, gate, writers, loader>>

vars == <<registry_file, audit_log, clock, last, queue_file, staging_tree, prod_tree, run,
          conc, gate, writers, loader>>

\* Registry.load: an empty RegistryData when the file is missing
load == IF registry_file.state = "missing" THEN RegistryData ELSE registry_file.data

NoCall == [op |-> "none", name |-> None, version |-> None, result |-> "none"]

Call(op, name, version, result) ==
    [op |-> op, name |-> name, version |-> version, result |-> result]

\* no queue file yet
NoQueue == [exists |-> FALSE, items |-> << >>]

\* no evolve call in progress
NoRun == [active |-> FALSE]

\* no run_gate call in progress
NoGateRun == [pc |-> "idle"]

\* a SkillLoader just made: nothing cached
NoLoader == [cache |-> << >>]

MaxWriters == 2      \* processes that call AuditLogger.log concurrently

Writers == 1..MaxWriters

\* no log call in progress, no audit log file.  calls counts the calls made.
NoWriters == [file |-> << >>,
              procs |-> [w \in Writers |-> [pc |-> "idle", call |-> 0, log_line |-> << >>,
                                            buffer |-> << >>]],
              calls |-> 0, returned |-> {}]

MaxProcs == 2        \* processes that call into the registry concurrently

Procs == 1..MaxProcs

\* a process that is in no call
Idle == [pc |-> "idle", op |-> "none", name |-> None, version |-> None,
         data |-> RegistryData, cases |-> << >>, then |-> "idle", dirty |-> FALSE]

\* no call in progress.  started counts the calls made; added and made_prod
\* are history: the (name, version) pairs whose add_staging returned, and
\* those a registry save wrote as a skill's current_prod.
NoConc == [procs |-> [p \in Procs |-> Idle], started |-> 0, added |-> {}, made_prod |-> {}]

Init ==
    /\ registry_file = Missing
    /\ audit_log = << >>
    /\ clock = 1
    /\ last = NoCall
    /\ queue_file = NoQueue
    /\ staging_tree = << >>
    /\ prod_tree = << >>
    /\ run = NoRun
    /\ conc = NoConc
    /\ gate = NoGateRun
    /\ writers = NoWriters
    /\ loader = NoLoader

(* ----------------- whole calls, one after the other -------------------- *)
\* compute_hash: SHA-256, taken to be injective
compute_hash(content) == [sha256 |-> content]

Hashes == {compute_hash("code")}

AddStaging(name, version) ==
    \E code_hash \in Hashes, manifest_hash \in Hashes :
    \E t1 \in clock..MaxClock : \E t2 \in t1..MaxClock :
        /\ registry_file' = File(save(add_staging(load, name, version, code_hash,
                                                  manifest_hash, ValidationResult, t1), t2))
        /\ clock' = t2
        /\ last' = Call("add_staging", name, version, "ok")
        /\ UNCHANGED audit_log
        /\ UNCHANGED pipeline_vars

Promote(name, version) ==
    \E t1 \in clock..MaxClock : \E t2 \in t1..MaxClock : \E t3 \in t2..MaxClock :
        LET r == promote(load, name, version, t1, t2) IN
        IF r.ok
        THEN /\ registry_file' = File(save(r.data, t3))
             /\ clock' = t3
             /\ last' = Call("promote", name, version, "True")
             /\ UNCHANGED audit_log
             /\ UNCHANGED pipeline_vars
        ELSE /\ last' = Call("promote", name, version, "False")
             /\ UNCHANGED registry_vars
             /\ UNCHANGED pipeline_vars

Rollback(name, target_version) ==
    \E t1 \in clock..MaxClock : \E t2 \in t1..MaxClock :
        LET r == rollback(load, name, target_version, t1) IN
        IF r.ok
        THEN /\ registry_file' = File(save(r.data, t2))
             /\ clock' = t2
             /\ last' = Call("rollback", name, target_version, "True")
             /\ UNCHANGED audit_log
             /\ UNCHANGED pipeline_vars
        ELSE /\ last' = Call("rollback", name, target_version, "False")
             /\ UNCHANGED registry_vars
             /\ UNCHANGED pipeline_vars

RollbackSkill(skill_name, target_version) ==
    \E fault \in RollbackFaults :
    \E t1 \in clock..MaxClock : \E t2 \in t1..MaxClock :
        LET r == rollback_skill(load, skill_name, target_version, t1, fault) IN
        /\ r.lines # << >> => rollback_calls(audit_log) < MaxRollbacks
        /\ registry_file' = IF r.saved THEN File(save(r.data, t2)) ELSE registry_file
        /\ clock' = IF r.saved THEN t2 ELSE clock
        /\ audit_log' = audit_log \o r.lines
        /\ last' = Call("rollback_skill", skill_name, target_version,
                        IF r.raises = "none" THEN "True"
                        ELSE IF r.raises = "OSError" THEN "OSError" ELSE "ValueError")
        /\ UNCHANGED pipeline_vars

Next ==
    \E name \in Names, version \in Versions :
        \/ AddStaging(name, version)
        \/ Promote(name, version)
        \/ Rollback(name, version)
        \/ RollbackSkill(name, version)

Spec == Init /\ [][Next]_vars

(* ----------------------------- day logger ------------------------------ *)
MaxCaps == 2         \* distinct capabilities (dedup keys)
MaxLog == 2          \* [MISSING: ...] tags in one log file
MaxOccurrences == 2  \* occurrences counted per queue item
MaxUpper == 0        \* capabilities (the first ones) that logs also write in upper case

\* A capability text: what it reads lowercased and stripped, whether it is
\* written in upper case, whether white space surrounds it.
Texts == [key : 1..MaxCaps, upper : BOOLEAN, padded : BOOLEAN]

strip(text) == [text EXCEPT !.padded = FALSE]

lower_AsWritten(text) == text

lower(text) == [text EXCEPT !.upper = FALSE]

QueueItem(id, capability, context) ==
    [id |-> id, capability |-> capability, occurrences |-> 1,
     context |-> context, status |-> "pending"]

\* index of the item with this dedup key, 0 when there is none
index_of(items, key) ==
    IF \E i \in 1..Len(items) : lower(strip(items[i].capability)) = key
    THEN CHOOSE i \in 1..Len(items) : lower(strip(items[i].capability)) = key
    ELSE 0

max_id(items) ==
    IF items = << >> THEN 0
    ELSE CHOOSE m \in {items[i].id : i \in 1..Len(items)} :
             \A i \in 1..Len(items) : items[i].id <= m

\* existing_lookup of build_queue: a later item with the key of an earlier one
\* takes its place
RECURSIVE existing_lookup(_, _)
existing_lookup(items, lookup) ==
    IF items = << >> THEN lookup
    ELSE LET i == index_of(lookup, lower(strip(Head(items).capability)))
         IN existing_lookup(Tail(items),
                            IF i = 0 THEN Append(lookup, Head(items))
                            ELSE [lookup EXCEPT ![i] = Head(items)])

observe_again_AndRevive(item) ==
    [item EXCEPT !.occurrences = @ + 1, !.status = "pending"]

\* an existing item is observed again: its occurrences are incremented, the
\* item is otherwise kept
observe_again(item) == [item EXCEPT !.occurrences = @ + 1]

\* the loop of build_queue over the (capability, context) pairs
RECURSIVE build_queue_loop(_, _, _)
build_queue_loop(capabilities, existing, new_items) ==
    IF capabilities = << >> THEN existing \o new_items
    ELSE LET capability == Head(capabilities)[1]
             context == Head(capabilities)[2]
             key == lower(strip(capability))
             e == index_of(existing, key)
             n == index_of(new_items, key)
         IN IF e # 0
            THEN build_queue_loop(Tail(capabilities),
                                  [existing EXCEPT ![e] = observe_again(@)], new_items)
            ELSE IF n # 0
            THEN build_queue_loop(Tail(capabilities), existing,
                                  [new_items EXCEPT ![n].occurrences = @ + 1])
            ELSE build_queue_loop(Tail(capabilities), existing,
                                  Append(new_items,
                                         QueueItem(max_id(existing \o new_items) + 1,
                                                   strip(capability), context)))

\* build_queue: the items of the merged queue
build_queue(capabilities, existing) ==
    build_queue_loop(capabilities, existing_lookup(existing, << >>), << >>)

\* parse_log: one (capability, context_line) pair per [MISSING: ...] tag
parse_log(log) == [i \in 1..Len(log) |-> <<strip(log[i]), log[i]>>]

\* the tags a log file holds
LogTexts == {text \in Texts : ~text.padded /\ (text.upper => text.key <= MaxUpper)}

Logs == UNION {[1..n -> LogTexts] : n \in 0..MaxLog}

\* day_logger.main: the queue file is rewritten with the merged queue
DayLogger ==
    \E log \in Logs :
        LET items == build_queue(parse_log(log), queue_file.items) IN
        /\ ~run.active
        /\ \A i \in 1..Len(items) : items[i].occurrences <= MaxOccurrences
        /\ queue_file' = [exists |-> TRUE, items |-> items]
        /\ last' = [op |-> "day_logger", name |-> None, version |-> None,
                    result |-> "ok", log |-> log]
        /\ UNCHANGED registry_vars
        /\ UNCHANGED <<staging_tree, prod_tree, run, conc, gate, writers, loader>>

(* ------------------------ evolution controller ------------------------- *)
MaxCodes == 1        \* distinct source texts the generator produces

\* The code of a skill package: its text, whether it parses, and how many
\* violations the textual scan and the tree walk find in it.
Codes == [text : 1..MaxCodes, parses : BOOLEAN, found : 0..1]

\* ASTGate.check
check(code) ==
    IF ~code.parses THEN [passed |-> FALSE, violations |-> 1]
    ELSE [passed |-> (code.found = 0), violations |-> code.found]

\* The manifest of a skill package: its version, whether it satisfies the
\* JSON schema, and its two MVP-constrained permissions.
Manifests == [version : Versions, schema_ok : BOOLEAN, network : BOOLEAN, subprocess : BOOLEAN]

\* the MVP constraints of validate_manifest: permissions.network is True,
\* permissions.subprocess is True
mvp_errors_NetworkOnly(manifest) ==
    IF manifest.network THEN <<"MVP constraint violation: network must be False">> ELSE << >>

mvp_errors(manifest) ==
    (IF manifest.network THEN <<"MVP constraint violation: network must be False">> ELSE << >>)
    \o (IF manifest.subprocess
        THEN <<"MVP constraint violation: subprocess must be False">> ELSE << >>)

validate_manifest(manifest) ==
    LET errors == (IF manifest.schema_ok THEN << >> ELSE <<"Schema validation error">>)
                  \o mvp_errors(manifest)
    IN [is_valid |-> (Len(errors) = 0), errors |-> errors]

Packages == [name : Names, code : Codes, manifest : Manifests]

\* what llm.generate_skill does: it returns a package or raises
Generated ==
    {[raises |-> "none", pkg |-> pkg] : pkg \in Packages}
    \cup {[raises |-> "ValueError"], [raises |-> "Exception"]}

\* what else can raise while an item is processed (an OSError)
Faults == {"none", "write_to_staging", "add_staging"}

\* An audit log that cannot be written: audit.log raises at the GENERATE line,
\* before the generator is called, and the handler's ERROR line is written
\* ("audit"), or the handler's audit.log raises too and the exception leaves
\* evolve ("audit_handler": an unwritable log stops the run at the first item
\* it processes).
AuditFaults == {"audit", "audit_handler"}

\* write_to_staging: skill.py and skill.json under <staging>/<name>/<version>/
write_to_staging(tree, skill_pkg, version) ==
    (<<skill_pkg.name, version>> :> [code |-> skill_pkg.code, manifest |-> skill_pkg.manifest])
    @@ tree

sandbox_rejects_NeverFails(sandbox_available, sandbox_passed) == FALSE

\* step 5 of evolve's loop: the sandbox ran and the skill did not pass
sandbox_rejects(sandbox_available, sandbox_passed) == sandbox_available /\ ~sandbox_passed

staged_events_SandboxFirst(GENERATE, AST_GATE, STAGING, SANDBOX, sandbox_available) ==
    <<GENERATE, AST_GATE>>
    \o (IF sandbox_available THEN <<SANDBOX>> ELSE << >>) \o <<STAGING>>

\* the audit lines of an item whose package was written to staging, in the
\* order of the audit.log calls; SANDBOX only when the sandbox is run
staged_events(GENERATE, AST_GATE, STAGING, SANDBOX, sandbox_available) ==
    <<GENERATE, AST_GATE, STAGING>>
    \o (IF sandbox_available THEN <<SANDBOX>> ELSE << >>)

\* The body of evolve's loop for one pending item.  gen is what the generator
\* does, sandbox_passed what sandbox.run returns, fault what raises besides,
\* t1 <= t2 are created_at and the registry's updated_at.
\* The result: the item's status, the audit lines, the staging tree, the
\* registry file.
process_item(item, gen, sandbox_passed, fault, sandbox_available, file, tree, t1, t2) ==
    LET GENERATE == AuditLine("GENERATE", [capability |-> item.capability, item_id |-> item.id])
        GENERATE_FAILED == AuditLine("GENERATE_FAILED", [capability |-> item.capability])
        ERROR == AuditLine("ERROR", [capability |-> item.capability])
        result(status, lines, tree2, file2) ==
            [status |-> status, lines |-> lines, tree |-> tree2, file |-> file2]
    IN
    IF fault = "audit" THEN result("failed", <<ERROR>>, tree, file)
    ELSE IF fault = "audit_handler" THEN result("raised", << >>, tree, file)
    ELSE IF gen.raises = "ValueError"
    THEN result("failed", <<GENERATE, GENERATE_FAILED>>, tree, file)
    ELSE IF gen.raises # "none"
    THEN result("failed", <<GENERATE, ERROR>>, tree, file)
    ELSE
    LET skill_pkg == gen.pkg
        gate_result == check(skill_pkg.code)
        AST_GATE == AuditLine("AST_GATE", [skill |-> skill_pkg.name,
                                           passed |-> gate_result.passed,
                                           violations |-> gate_result.violations])
        ast_gate == [present |-> TRUE,
                     passed |-> IF gate_result.passed THEN "True" ELSE "False",
                     skipped |-> FALSE,
                     violations |-> gate_result.violations]
        manifest == validate_manifest(skill_pkg.manifest)
        MANIFEST_INVALID == AuditLine("MANIFEST_INVALID", [skill |-> skill_pkg.name,
                                                           errors |-> manifest.errors])
        version == skill_pkg.manifest.version
        STAGING == AuditLine("STAGING", [skill |-> skill_pkg.name, version |-> version])
        tree2 == write_to_staging(tree, skill_pkg, version)
        SANDBOX == AuditLine("SANDBOX", [skill |-> skill_pkg.name, passed |-> sandbox_passed])
        sandbox == IF sandbox_available
                   THEN [present |-> TRUE,
                         passed |-> IF sandbox_passed THEN "True" ELSE "False",
                         skipped |-> FALSE, violations |-> 0]
                   ELSE [present |-> TRUE, passed |-> "None", skipped |-> TRUE, violations |-> 0]
        validation == [ast_gate |-> ast_gate, sandbox |-> sandbox, promote_gate |-> << >>]
        staged == staged_events(GENERATE, AST_GATE, STAGING, SANDBOX, sandbox_available)
        data == IF file.state = "missing" THEN RegistryData ELSE file.data
        file2 == File(save(add_staging(data, skill_pkg.name, version,
                                       compute_hash(skill_pkg.code),
                                       compute_hash(skill_pkg.manifest),
                                       validation, t1), t2))
    IN
    IF ~gate_result.passed
    THEN result("failed", <<GENERATE, AST_GATE>>, tree, file)
    ELSE IF ~manifest.is_valid
    THEN result("failed", <<GENERATE, AST_GATE, MANIFEST_INVALID>>, tree, file)
    ELSE IF fault = "write_to_staging"
    THEN result("failed", <<GENERATE, AST_GATE, ERROR>>, tree, file)
    ELSE IF sandbox_rejects(sandbox_available, sandbox_passed)
    THEN result("failed", staged, tree2, file)
    ELSE IF file.state = "partial"
    THEN \* Registry.load: json.JSONDecodeError, a ValueError
         result("failed", Append(staged, GENERATE_FAILED), tree2, file)
    ELSE IF fault = "add_staging"
    THEN result("failed", Append(staged, ERROR), tree2, file)
    ELSE result("completed", staged, tree2, file2)

\* the generator returned a package that the static gate and the manifest
\* validator let through
reaches_staging(gen) ==
    /\ gen.raises = "none"
    /\ check(gen.pkg.code).passed
    /\ validate_manifest(gen.pkg.manifest).is_valid

\* evolve up to its loop: the queue is loaded, the sandbox probed once.
\* audit tells whether an audit_log_path was given.
EvolveBegin ==
    \E skip_sandbox \in BOOLEAN, is_available \in BOOLEAN, audit \in BOOLEAN :
        /\ ~run.active
        /\ run' = [active |-> TRUE,
                   items |-> queue_file.items,
                   i |-> 1,
                   skip_sandbox |-> skip_sandbox,
                   sandbox_available |-> (~skip_sandbox /\ is_available),
                   audit |-> audit,
                   summary |-> [processed |-> 0, succeeded |-> 0, failed |-> 0, skipped |-> 0]]
        /\ last' = Call("evolve", None, None, "running")
        /\ UNCHANGED registry_vars
        /\ UNCHANGED <<queue_file, staging_tree, prod_tree, conc, gate, writers, loader>>

counted_FailuresLeftOut(summary, status) ==
    [summary EXCEPT !.processed = @ + 1,
                    !.succeeded = IF status = "completed" THEN @ + 1 ELSE @]

\* evolve's summary after a pending item was processed and ended with status
counted(summary, status) ==
    [summary EXCEPT !.processed = @ + 1,
                    !.succeeded = IF status = "completed" THEN @ + 1 ELSE @,
                    !.failed = IF status = "failed" THEN @ + 1 ELSE @]

skipped_OnlyCompleted(item) == item.status = "completed"

\* the loop passes over an item that is not pending
skipped(item) == item.status # "pending"

\* one turn of evolve's loop: items[i] is skipped or processed to its end;
\* generated is what llm.generate_skill may do for it
EvolveItemFrom(generated) ==
    /\ run.active
    /\ run.i <= Len(run.items)
    /\ LET item == run.items[run.i] IN
       IF skipped(item)
       THEN /\ run' = [run EXCEPT !.i = @ + 1, !.summary.skipped = @ + 1]
            /\ last' = [op |-> "evolve_item", name |-> None, version |-> None,
                        result |-> "skipped", item |-> run.i]
            /\ UNCHANGED registry_vars
            /\ UNCHANGED <<queue_file, staging_tree, prod_tree, conc, gate, writers, loader>>
       ELSE \E gen \in generated :
            \E fault \in (IF reaches_staging(gen) THEN Faults ELSE {"none"})
                         \cup (IF run.audit /\ gen.raises = "ValueError"
                               THEN {"audit"} \cup (IF run.summary.processed = 0
                                                    THEN {"audit_handler"} ELSE {})
                               ELSE {}) :
            \E sandbox_passed \in (IF reaches_staging(gen) /\ run.sandbox_available
                                   THEN BOOLEAN ELSE {FALSE}) :
            \E t1 \in clock..MaxClock : \E t2 \in t1..MaxClock :
              LET r == process_item(item, gen, sandbox_passed, fault, run.sandbox_available,
                                    registry_file, staging_tree, t1, t2)
                  returned == gen.raises = "none"
                  \* the call that raised in the try body, and what it raised
                  raised_at ==
                      IF fault \in AuditFaults THEN <<"audit.log", "OSError">>
                      ELSE IF ~returned THEN <<"generate_skill", gen.raises>>
                      ELSE IF ~reaches_staging(gen) THEN <<"none", "none">>
                      ELSE IF fault = "write_to_staging"
                      THEN <<"write_to_staging", "OSError">>
                      ELSE IF sandbox_rejects(run.sandbox_available, sandbox_passed)
                      THEN <<"none", "none">>
                      ELSE IF registry_file.state = "partial"
                      THEN <<"add_staging", "ValueError">>
                      ELSE IF fault = "add_staging" THEN <<"add_staging", "OSError">>
                      ELSE <<"none", "none">>
              IN
              IF r.status = "raised"
              THEN \* the exception leaves evolve: no save_queue, nothing returned
                   /\ run' = NoRun
                   /\ last' = [op |-> "evolve", name |-> None, version |-> None,
                               result |-> "raised", item |-> run.i]
                   /\ UNCHANGED registry_vars
                   /\ UNCHANGED <<queue_file, staging_tree, prod_tree, conc, gate, writers, loader>>
              ELSE
              /\ run' = [run EXCEPT !.i = @ + 1,
                                    !.items[run.i].status = r.status,
                                    !.summary = counted(@, r.status)]
              /\ registry_file' = r.file
              /\ clock' = IF r.file # registry_file THEN t2 ELSE clock
              /\ staging_tree' = r.tree
              /\ audit_log' = IF run.audit THEN audit_log \o r.lines ELSE audit_log
              /\ last' = [op |-> "evolve_item",
                          name |-> IF returned THEN gen.pkg.name ELSE None,
                          version |-> IF returned THEN gen.pkg.manifest.version ELSE None,
                          result |-> r.status,
                          item |-> run.i,
                          raised_at |-> raised_at,
                          generated |-> returned,
                          gate_passed |-> returned /\ check(gen.pkg.code).passed,
                          manifest_valid |-> returned /\ validate_manifest(gen.pkg.manifest).is_valid,
                          sandbox |-> IF ~(/\ reaches_staging(gen)
                                           /\ fault # "write_to_staging"
                                           /\ run.sandbox_available)
                                      THEN "not run"
                                      ELSE IF sandbox_passed THEN "passed" ELSE "failed"]
              /\ UNCHANGED <<queue_file, prod_tree, conc, gate, writers, loader>>

EvolveItem == EvolveItemFrom(Generated)

\* Another process is killed between the open and the write of Registry.save
\* while no evolve run is in progress: the registry file is left truncated.
InterruptedSave ==
    /\ ~run.active
    /\ registry_file.state # "partial"
    /\ registry_file' = Partial
    /\ last' = Call("save", None, None, "interrupted")
    /\ UNCHANGED <<audit_log, clock, queue_file, staging_tree, prod_tree, run, conc, gate, writers, loader>>

\* evolve after its loop: save_queue, and the summary is returned
EvolveEnd ==
    /\ run.active
    /\ run.i > Len(run.items)
    /\ queue_file' = [exists |-> TRUE, items |-> run.items]
    /\ last' = [op |-> "evolve", name |-> None, version |-> None,
                result |-> "returned", summary |-> run.summary]
    /\ run' = NoRun
    /\ UNCHANGED registry_vars
    /\ UNCHANGED <<staging_tree, prod_tree, conc, gate, writers, loader>>

(* ----------------------------- the promoter ---------------------------- *)
MaxFailed == 2       \* failed cases in one gate's case set
MaxPromotions == 2   \* promote_skill calls that write the audit log

gates_ReplayAt99 ==
    <<[gate_name |-> "replay", threshold |-> 99],
      [gate_name |-> "regression", threshold |-> 99],
      [gate_name |-> "redteam", threshold |-> 100]>>

\* the gates of promote_skill, thresholds in percent (1.0, 0.99, 1.0)
gates ==
    <<[gate_name |-> "replay", threshold |-> 100],
      [gate_name |-> "regression", threshold |-> 99],
      [gate_name |-> "redteam", threshold |-> 100]>>

\* What running a gate's cases gives: <<total, passed_count>>.  A hundred
\* cases of which up to MaxFailed fail.
CaseResults == {<<100, 100 - failed>> : failed \in 0..MaxFailed}

run_gate_Strict(category, threshold, total, passed_count) ==
    LET pass_rate == IF total > 0 THEN <<passed_count, total>> ELSE <<1, 1>>
    IN [gate_name |-> category,
        total |-> total,
        passed_count |-> passed_count,
        failed_count |-> total - passed_count,
        pass_rate |-> pass_rate,
        threshold |-> threshold,
        gate_passed |-> (pass_rate[1] * 100 > threshold * pass_rate[2])]

\* EvalGate.run_gate, given how many of the cases passed.  pass_rate is the
\* fraction <<numerator, denominator>>.
run_gate(category, threshold, total, passed_count) ==
    LET pass_rate == IF total > 0 THEN <<passed_count, total>> ELSE <<1, 1>>
    IN [gate_name |-> category,
        total |-> total,
        passed_count |-> passed_count,
        failed_count |-> total - passed_count,
        pass_rate |-> pass_rate,
        threshold |-> threshold,
        gate_passed |-> (pass_rate[1] * 100 >= threshold * pass_rate[2])]

\* promote_skill up to its gates: the staging version it is to evaluate, None
\* when it returns False before running them
staged_version(skill_name, file, staging) ==
    LET data == IF file.state = "missing" THEN RegistryData ELSE file.data IN
    IF skill_name \notin DOMAIN data.skills THEN None
    ELSE IF data.skills[skill_name].current_staging = None THEN None
    ELSE IF <<skill_name, data.skills[skill_name].current_staging>> \notin DOMAIN staging
    THEN None
    ELSE data.skills[skill_name].current_staging

\* the loop over the gates: cases[i] is what running gate i's cases gives
run_gates(cases) ==
    [i \in 1..3 |-> run_gate(gates[i].gate_name, gates[i].threshold, cases[i][1], cases[i][2])]

all_passed(gate_results) == \A i \in 1..3 : gate_results[i].gate_passed

\* the gate results are put into the loaded registry; saved tells whether
\* registry.save is called
record_gates(data, skill_name, staging_version, gate_results) ==
    IF /\ skill_name \in DOMAIN data.skills
       /\ staging_version \in DOMAIN data.skills[skill_name].versions
    THEN [saved |-> TRUE,
          data |-> [data EXCEPT !.skills[skill_name].versions[staging_version]
                                    .validation.promote_gate = gate_results]]
    ELSE [saved |-> FALSE, data |-> data]

PROMOTE_FAILED(skill_name, staging_version, gate_results) ==
    LET failed_gates == SelectSeq(gate_results, LAMBDA report : ~report.gate_passed) IN
    AuditLine("PROMOTE_FAILED",
              [skill |-> skill_name, version |-> staging_version,
               failed_gates |-> [i \in 1..Len(failed_gates) |-> failed_gates[i].gate_name]])

\* rmtree of the target when it exists, then copytree
copytree(staging, prod, skill_name, staging_version) ==
    (<<skill_name, staging_version>> :> staging[<<skill_name, staging_version>>]) @@ prod

PROMOTE(skill_name, staging_version, gate_results) ==
    AuditLine("PROMOTE",
              [skill |-> skill_name, version |-> staging_version,
               replay_rate |-> gate_results[1].pass_rate,
               regression_rate |-> gate_results[2].pass_rate,
               redteam_rate |-> gate_results[3].pass_rate])

\* promote_skill from its gates on.  t1 is the updated_at of the save of the
\* gate results, t2 <= t3 <= t4 the datetimes of registry.promote.  The
\* result: what is returned, the registry file, the prod tree, the audit
\* lines, what registry.promote returned.
promote_skill(skill_name, staging_version, cases, file, staging, prod, t1, t2, t3, t4) ==
    LET data == IF file.state = "missing" THEN RegistryData ELSE file.data
        gate_results == run_gates(cases)
        recorded == record_gates(data, skill_name, staging_version, gate_results)
        file2 == IF recorded.saved THEN File(save(recorded.data, t1)) ELSE file
        file2_data == IF file2.state = "missing" THEN RegistryData ELSE file2.data
        promoted == promote(file2_data, skill_name, staging_version, t2, t3)
        file3 == IF promoted.ok THEN File(save(promoted.data, t4)) ELSE file2
    IN
    IF ~all_passed(gate_results)
    THEN [returns |-> FALSE, file |-> file2, prod |-> prod,
          lines |-> <<PROMOTE_FAILED(skill_name, staging_version, gate_results)>>,
          promote |-> "not called"]
    ELSE [returns |-> TRUE, file |-> file3,
          prod |-> copytree(staging, prod, skill_name, staging_version),
          lines |-> <<PROMOTE(skill_name, staging_version, gate_results)>>,
          promote |-> IF promoted.ok THEN "True" ELSE "False"]

\* promote_skill; case_results is what running the gates' cases may give
PromoteSkillOn(skill_name, case_results) ==
    LET staging_version == staged_version(skill_name, registry_file, staging_tree) IN
    /\ ~run.active
    /\ IF staging_version = None
       THEN /\ last' = [op |-> "promote_skill", name |-> skill_name, version |-> None,
                        result |-> "False", cases |-> << >>, promote |-> "not called"]
            /\ UNCHANGED registry_vars
            /\ UNCHANGED pipeline_vars
       ELSE /\ count(audit_log, {"PROMOTE", "PROMOTE_FAILED"}) < MaxPromotions
            /\ \E cases \in case_results :
               \E t1 \in clock..MaxClock : \E t2 \in t1..MaxClock :
               \E t3 \in t2..MaxClock : \E t4 \in t3..MaxClock :
                 LET r == promote_skill(skill_name, staging_version, cases, registry_file,
                                        staging_tree, prod_tree, t1, t2, t3, t4)
                 IN
                 /\ registry_file' = r.file
                 /\ clock' = r.file.data.updated_at
                 /\ prod_tree' = r.prod
                 /\ audit_log' = audit_log \o r.lines
                 /\ last' = [op |-> "promote_skill", name |-> skill_name,
                             version |-> staging_version,
                             result |-> IF r.returns THEN "True" ELSE "False",
                             cases |-> cases, promote |-> r.promote]
                 /\ UNCHANGED <<queue_file, staging_tree, run, conc, gate, writers, loader>>

PromoteSkill(skill_name) == PromoteSkillOn(skill_name, [1..3 -> CaseResults])

\* what evolve leaves in the staging tree: packages that passed the static
\* gate and the manifest validator
Staged == {pkg \in Packages : reaches_staging([raises |-> "none", pkg |-> pkg])}

\* write_to_staging called on its own, as the deployment scripts and the
\* tests do before promote_skill
WriteToStaging(skill_pkg) ==
    /\ ~run.active
    /\ staging_tree' = write_to_staging(staging_tree, skill_pkg, skill_pkg.manifest.version)
    /\ last' = Call("write_to_staging", skill_pkg.name, skill_pkg.manifest.version, "ok")
    /\ UNCHANGED registry_vars
    /\ UNCHANGED <<queue_file, prod_tree, run, conc, gate, writers, loader>>

(* ------- the promoter on a registry and a staging tree filled by hand ---- *)
NextPromote ==
    \/ \E name \in Names, version \in Versions : AddStaging(name, version)
    \/ \E skill_pkg \in Staged : WriteToStaging(skill_pkg)
    \/ \E skill_name \in Names : PromoteSkill(skill_name)

SpecPromote == Init /\ [][NextPromote]_vars

(* ------------- the controller: day logger and evolve in turn ----------- *)
NextEvolve ==
    \/ DayLogger
    \/ EvolveBegin
    \/ EvolveItem
    \/ EvolveEnd
    \/ InterruptedSave

SpecEvolve == Init /\ [][NextEvolve]_vars

(* --------- the pipeline: evolve and promote_skill on one skill --------- *)
MaxTexts == 2        \* source texts the generator returns for one skill

\* a generator whose packages all pass the static gate and the manifest
\* validator, and that may return another source text at every call
Regenerated ==
    {[raises |-> "none",
      pkg |-> [name |-> name,
               code |-> [text |-> text, parses |-> TRUE, found |-> 0],
               manifest |-> [version |-> version, schema_ok |-> TRUE,
                             network |-> FALSE, subprocess |-> FALSE]]] :
        name \in Names, text \in 1..MaxTexts, version \in Versions}

Regenerate == EvolveItemFrom(Regenerated)

\* every case of every gate passes, or one case of the replay gate fails
Verdicts ==
    {[i \in 1..3 |-> <<100, 100>>],
     [i \in 1..3 |-> IF i = 1 THEN <<100, 99>> ELSE <<100, 100>>]}

PromoteStaged(skill_name) == PromoteSkillOn(skill_name, Verdicts)

\* as Init, after day_logger wrote the queue of one day's log, at a time
\* when the clock reads MaxClock
InitPipeline ==
    /\ registry_file = Missing
    /\ audit_log = << >>
    /\ clock = MaxClock
    /\ last = NoCall
    /\ \E log \in Logs :
          queue_file = [exists |-> TRUE, items |-> build_queue(parse_log(log), << >>)]
    /\ staging_tree = << >>
    /\ prod_tree = << >>
    /\ run = NoRun
    /\ conc = NoConc
    /\ gate = NoGateRun
    /\ writers = NoWriters
    /\ loader = NoLoader

NextPipeline ==
    \/ EvolveBegin
    \/ Regenerate
    \/ EvolveEnd
    \/ \E skill_name \in Names : PromoteStaged(skill_name)

SpecPipeline == InitPipeline /\ [][NextPipeline]_vars

(* ------------- calls in concurrent processes, step by step ------------- *)
MaxOps == 4          \* calls the processes make in all

\* A process makes one call at a time; a step is one access to the file
\* system.  The clock stands still here: every datetime.now() returns clock.
\* what the gates give in these calls: all pass, or replay fails
ConcCases ==
    {[i \in 1..3 |-> <<100, 100>>],
     [i \in 1..3 |-> IF i = 1 THEN <<100, 99>> ELSE <<100, 100>>]}

\* the uncaught exception ends the call
raise(p) == [conc EXCEPT !.procs[p] = Idle, !.started = @ + 1]

\* Registry.add_staging up to its save: load, which raises on a file that
\* does not parse, and the new record
CallAddStaging(p, name, version) ==
    /\ conc.procs[p].pc = "idle"
    /\ conc.started < MaxOps
    /\ conc' = IF registry_file.state = "partial"
               THEN raise(p)
               ELSE [conc EXCEPT
                       !.started = @ + 1,
                       !.procs[p] = [Idle EXCEPT
                           !.pc = "open", !.op = "add_staging",
                           !.name = name, !.version = version,
                           !.data = add_staging(load, name, version, compute_hash("code"),
                                                compute_hash("code"), ValidationResult,
                                                clock)]]
    /\ UNCHANGED <<registry_file, audit_log, clock, last, queue_file, staging_tree,
                   prod_tree, run, gate, writers, loader>>

\* Registry.save, open(path, "w"): the file is truncated
Open(p) ==
    /\ conc.procs[p].pc = "open"
    /\ registry_file' = Partial
    /\ conc' = [conc EXCEPT !.procs[p].pc = "write", !.procs[p].dirty = FALSE]
    /\ UNCHANGED <<audit_log, clock, last, queue_file, staging_tree, prod_tree, run, gate, writers, loader>>

\* Registry.save, json.dump and close: the content is written from offset 0.
\* When another process wrote the file since this one opened it, what is left
\* is this content or this content followed by the other's tail.
Write(p) ==
    LET self == conc.procs[p]
        data == save(self.data, clock)
        others == {q \in Procs : q # p /\ conc.procs[q].pc = "write"}
        made == {<<n, data.skills[n].current_prod>> : n \in DOMAIN data.skills}
                \ {<<n, None>> : n \in Names}
    IN
    /\ self.pc = "write"
    /\ \E file \in (IF self.dirty THEN {File(data), Partial} ELSE {File(data)}) :
         /\ registry_file' = file
         /\ conc' = [conc EXCEPT
               !.procs = [q \in Procs |->
                            IF q = p
                            THEN IF self.then = "idle" THEN Idle
                                 ELSE [self EXCEPT !.pc = self.then, !.dirty = FALSE]
                            ELSE IF q \in others THEN [conc.procs[q] EXCEPT !.dirty = TRUE]
                            ELSE conc.procs[q]],
               !.added = IF self.op = "add_staging"
                         THEN @ \cup {<<self.name, self.version>>} ELSE @,
               !.made_prod = IF file = Partial THEN @ ELSE @ \cup made]
    /\ UNCHANGED <<audit_log, clock, last, queue_file, staging_tree, prod_tree, run, gate, writers, loader>>

\* the process is killed between the open and the write of Registry.save
Interrupt(p) ==
    /\ conc.procs[p].pc = "write"
    /\ conc' = [conc EXCEPT !.procs[p] = Idle]
    /\ UNCHANGED <<registry_file, audit_log, clock, last, queue_file, staging_tree,
                   prod_tree, run, gate, writers, loader>>

\* promote_skill up to its gates: get_entry, the staging path, the gates run
CallPromoteSkill(p, skill_name) ==
    LET staging_version == staged_version(skill_name, registry_file, staging_tree) IN
    /\ conc.procs[p].pc = "idle"
    /\ conc.started < MaxOps
    /\ IF registry_file.state = "partial" THEN conc' = raise(p)
       ELSE IF staging_version = None THEN conc' = [conc EXCEPT !.started = @ + 1]
       ELSE \E cases \in ConcCases :
              conc' = [conc EXCEPT
                         !.started = @ + 1,
                         !.procs[p] = [Idle EXCEPT
                             !.pc = "load_gates", !.op = "promote_skill",
                             !.name = skill_name, !.version = staging_version,
                             !.cases = cases]]
    /\ UNCHANGED <<registry_file, audit_log, clock, last, queue_file, staging_tree,
                   prod_tree, run, gate, writers, loader>>

\* promote_skill: registry.load, and the gate results put into what it gave
LoadGates(p) ==
    LET self == conc.procs[p]
        recorded == record_gates(load, self.name, self.version, run_gates(self.cases))
    IN
    /\ self.pc = "load_gates"
    /\ conc' = IF registry_file.state = "partial"
               THEN [conc EXCEPT !.procs[p] = Idle]
               ELSE IF recorded.saved
               THEN [conc EXCEPT !.procs[p].pc = "open", !.procs[p].then = "decide",
                                 !.procs[p].data = recorded.data]
               ELSE [conc EXCEPT !.procs[p].pc = "decide"]
    /\ UNCHANGED <<registry_file, audit_log, clock, last, queue_file, staging_tree,
                   prod_tree, run, gate, writers, loader>>

\* promote_skill after the save of the gate results: PROMOTE_FAILED and
\* return False, or the copy to the prod tree
Decide(p) ==
    LET self == conc.procs[p]
        gate_results == run_gates(self.cases)
    IN
    /\ self.pc = "decide"
    /\ IF ~all_passed(gate_results)
       THEN /\ audit_log' = Append(audit_log,
                                   PROMOTE_FAILED(self.name, self.version, gate_results))
            /\ conc' = [conc EXCEPT !.procs[p] = Idle]
            /\ UNCHANGED prod_tree
       ELSE /\ prod_tree' = copytree(staging_tree, prod_tree, self.name, self.version)
            /\ conc' = [conc EXCEPT !.procs[p].pc = "load_promote"]
            /\ UNCHANGED audit_log
    /\ UNCHANGED <<registry_file, clock, last, queue_file, staging_tree, run, gate, writers, loader>>

\* registry.promote up to its save; promote_skill drops what it returns
LoadPromote(p) ==
    LET self == conc.procs[p]
        promoted == promote(load, self.name, self.version, clock, clock)
    IN
    /\ self.pc = "load_promote"
    /\ conc' = IF registry_file.state = "partial"
               THEN [conc EXCEPT !.procs[p] = Idle]
               ELSE IF promoted.ok
               THEN [conc EXCEPT !.procs[p].pc = "open", !.procs[p].then = "audit",
                                 !.procs[p].data = promoted.data]
               ELSE [conc EXCEPT !.procs[p].pc = "audit"]
    /\ UNCHANGED <<registry_file, audit_log, clock, last, queue_file, staging_tree,
                   prod_tree, run, gate, writers, loader>>

\* promote_skill: the PROMOTE line, and return True
Audit(p) ==
    LET self == conc.procs[p] IN
    /\ self.pc = "audit"
    /\ audit_log' = Append(audit_log, PROMOTE(self.name, self.version, run_gates(self.cases)))
    /\ conc' = [conc EXCEPT !.procs[p] = Idle]
    /\ UNCHANGED <<registry_file, clock, last, queue_file, staging_tree, prod_tree, run, gate, writers, loader>>

NextConc ==
    \/ \E p \in Procs, name \in Names, version \in Versions : CallAddStaging(p, name, version)
    \/ \E p \in Procs : Open(p)
    \/ \E p \in Procs : Write(p)
    \/ \E p \in Procs : Interrupt(p)
    \/ \E skill_pkg \in Staged : WriteToStaging(skill_pkg)
    \/ \E p \in Procs, skill_name \in Names : CallPromoteSkill(p, skill_name)
    \/ \E p \in Procs : LoadGates(p)
    \/ \E p \in Procs : Decide(p)
    \/ \E p \in Procs : LoadPromote(p)
    \/ \E p \in Procs : Audit(p)

SpecConc == Init /\ [][NextConc]_vars

(* --------------------------- the sandbox runner ------------------------ *)
MaxLines == 2        \* lines in a container's logs

ExitCodes == {0, 1, 137}

\* what client.containers.run does: it returns a container or raises
Starts == {"container", "ImageNotFound", "APIError", "Exception"}

\* what container.wait does: it raises (the timeout, or another error), or
\* returns a dict with a StatusCode or without one (result is then << >>)
Waits ==
    {[raises |-> TRUE, result |-> << >>], [raises |-> FALSE, result |-> << >>]}
    \cup {[raises |-> FALSE, result |-> <<code>>] : code \in ExitCodes}

\* A line of logs: the text VERIFICATION_SUCCESS occurs in it or not, and the
\* line is nothing but that text or has more around it.
LogLines == [marker : BOOLEAN, alone : BOOLEAN]

\* what container.logs() does: it raises, or returns the decoded lines
LogReads ==
    {[raises |-> TRUE, lines |-> << >>]}
    \cup {[raises |-> FALSE, lines |-> lines] :
             lines \in UNION {[1..n -> LogLines] : n \in 0..MaxLines}}

\* "VERIFICATION_SUCCESS" in logs
contains_success(lines) == \E i \in 1..Len(lines) : lines[i].marker

Metrics(timeout, exit_code, error) ==
    [timeout |-> timeout, exit_code |-> exit_code, error |-> error]

cleanup_OneTry(kill_raises, remove_raises) ==
    IF kill_raises THEN <<"kill">> ELSE <<"kill", "remove">>

\* the finally block: container.kill() and container.remove(force=True),
\* each in a try of its own whose except passes
cleanup(kill_raises, remove_raises) == <<"kill", "remove">>

passed_ExitCodeOnly(exit_code, logs) == exit_code = 0

\* passed = exit_code == 0 and "VERIFICATION_SUCCESS" in logs
passed(exit_code, logs) == exit_code = 0 /\ contains_success(logs)

\* SandboxRunner.run.  started, waited and logged are what the docker client
\* does, fault tells whether a statement between the log read and the return
\* raises, kill_raises and remove_raises what the cleanup calls do.  The
\* result: the tuple returned, and the calls made on the container in order.
SandboxRunner_run(started, waited, logged, fault, kill_raises, remove_raises) ==
    LET exit_code == IF waited.raises THEN -1
                     ELSE IF waited.result = << >> THEN 1 ELSE waited.result[1]
        logs == IF logged.raises THEN << >> ELSE logged.lines
        done == cleanup(kill_raises, remove_raises)
    IN
    IF started = "ImageNotFound"
    THEN [passed |-> FALSE, logs |-> << >>,
          metrics |-> Metrics(FALSE, << >>, "image_not_found"), calls |-> << >>]
    ELSE IF started = "APIError"
    THEN [passed |-> FALSE, logs |-> << >>,
          metrics |-> Metrics(FALSE, << >>, "api_error"), calls |-> << >>]
    ELSE IF started = "Exception"
    THEN [passed |-> FALSE, logs |-> << >>,
          metrics |-> Metrics(FALSE, << >>, "str(e)"), calls |-> << >>]
    ELSE IF fault
    THEN \* except Exception: the logs are read once more, then the cleanup
         [passed |-> FALSE, logs |-> logs,
          metrics |-> Metrics(FALSE, << >>, "str(e)"),
          calls |-> <<"wait", "logs", "logs">> \o done]
    ELSE [passed |-> passed(exit_code, logs), logs |-> logs,
          metrics |-> Metrics(waited.raises, <<exit_code>>, "none"),
          calls |-> <<"wait", "logs">> \o done]

\* one call of SandboxRunner.run
SandboxRun ==
    \E started \in Starts, waited \in Waits, logged \in LogReads :
    \E fault \in BOOLEAN, kill_raises \in BOOLEAN, remove_raises \in BOOLEAN :
        /\ last = NoCall
        /\ last' = [op |-> "sandbox_run", name |-> None, version |-> None,
                    result |-> SandboxRunner_run(started, waited, logged, fault,
                                                 kill_raises, remove_raises),
                    started |-> started, waited |-> waited, logged |-> logged,
                    fault |-> fault,
                    kill_raises |-> kill_raises, remove_raises |-> remove_raises]
        /\ UNCHANGED registry_vars
        /\ UNCHANGED pipeline_vars

(* --------------------- the harness in the container -------------------- *)
\* Python objects verify() may return; only the first is the boolean True
Values == {"True", "False", "1", "'yes'", "None"}

\* a raised condition: its class, and whether str() of it raises in turn
Conditions ==
    [class : {"Exception", "SystemExit", "KeyboardInterrupt"}, str_raises : BOOLEAN]

NoCondition == [class |-> "none", str_raises |-> FALSE]

\* what executing the module, or calling verify(), does
Outcomes ==
    {[raised |-> NoCondition, value |-> value] : value \in Values}
    \cup {[raised |-> e, value |-> "None"] : e \in Conditions}

\* a skill directory as the harness sees it: whether spec_from_file_location
\* gives a spec with a loader, what exec_module does, which functions the
\* module then has, what verify() does
Skills ==
    {skill \in [spec_found : BOOLEAN, exec_module : Outcomes,
                has_verify : BOOLEAN, has_action : BOOLEAN, verify : Outcomes] :
        skill.exec_module.value = "None"}

FAILED == "VERIFICATION_FAILED: "

\* except BaseException as e: the line is formatted with str(e) and printed,
\* then the traceback
handler(e) ==
    IF e.str_raises
    THEN [returns |-> << >>, printed |-> << >>, raises |-> TRUE]
    ELSE [returns |-> <<1>>, printed |-> <<FAILED, "traceback">>, raises |-> FALSE]

\* harness.main: what it returns (<< >> when it raises instead) and the
\* lines it prints
main(skill) ==
    LET failed == [returns |-> <<1>>, printed |-> <<FAILED>>, raises |-> FALSE] IN
    IF ~skill.spec_found THEN failed
    ELSE IF skill.exec_module.raised # NoCondition THEN handler(skill.exec_module.raised)
    ELSE IF ~skill.has_verify THEN failed
    ELSE IF ~skill.has_action THEN failed
    ELSE IF skill.verify.raised # NoCondition THEN handler(skill.verify.raised)
    ELSE IF skill.verify.value = "True"
    THEN [returns |-> <<0>>, printed |-> <<"VERIFICATION_SUCCESS">>, raises |-> FALSE]
    ELSE failed

\* one call of harness.main
HarnessMain ==
    \E skill \in Skills :
        /\ last = NoCall
        /\ last' = [op |-> "harness_main", name |-> None, version |-> None,
                    result |-> main(skill), skill |-> skill]
        /\ UNCHANGED registry_vars
        /\ UNCHANGED pipeline_vars

NextSandbox ==
    \/ SandboxRun
    \/ HarnessMain

SpecSandbox == Init /\ [][NextSandbox]_vars

(* ------------------- the evaluation gate, step by step ----------------- *)
MaxCases == 2        \* cases of one gate for one skill

\* thresholds of run_gate, in percent
Rates == {50, 99, 100}

\* what an action returns: None, or one of two strings
Returned == {"None", "ok", "root:x"}

\* expected of a case: the type, and what the type reads of the record:
\* exact the value (None where the key is missing or null), contains the
\* substring, no_forbidden_patterns the list forbidden
Expected(type, value, substring, forbidden) ==
    [type |-> type, value |-> value, substring |-> substring, forbidden |-> forbidden]

Expecteds ==
    {Expected("exact", value, "ok", << >>) : value \in {"None", "ok"}}
    \cup {Expected("contains", "None", "ok", << >>)}
    \cup {Expected("no_forbidden_patterns", "None", "ok", forbidden) :
              forbidden \in {<< >>, <<"root:">>}}
    \cup {Expected(type, "None", "ok", << >>) : type \in {"timeout_or_error", "regex"}}

\* An evaluation case as run_case meets it: whether skill.py exists, whether
\* a module spec is made for it, what exec_module does, whether the module
\* has action, what action does, what it returns if it returns, and the
\* expected output.
\* action: it returns, raises, or never returns by itself; of the latter,
\* "loops" lets a raised TimeoutError through and "swallows" catches every
\* Exception inside its loop and goes on.
CaseKinds ==
    {[file |-> FALSE, spec |-> FALSE, exec_module |-> "returns", has_action |-> FALSE,
      action |-> "returns", result |-> "None", expected |-> Expected("exact", "ok", "ok", << >>)],
     [file |-> TRUE, spec |-> FALSE, exec_module |-> "returns", has_action |-> FALSE,
      action |-> "returns", result |-> "None", expected |-> Expected("exact", "ok", "ok", << >>)]}
    \cup {[file |-> TRUE, spec |-> TRUE, exec_module |-> e, has_action |-> FALSE,
            action |-> "returns", result |-> "None",
            expected |-> Expected("exact", "ok", "ok", << >>)] :
              e \in {"returns", "Exception", "SystemExit"}}
    \cup {[file |-> TRUE, spec |-> TRUE, exec_module |-> "returns", has_action |-> TRUE,
            action |-> "returns", result |-> r, expected |-> x] :
              r \in Returned, x \in Expecteds}
    \cup {[file |-> TRUE, spec |-> TRUE, exec_module |-> "returns", has_action |-> TRUE,
            action |-> a, result |-> "None", expected |-> x] :
              a \in {"Exception", "SystemExit", "loops", "swallows"}, x \in Expecteds}

CaseSets == UNION {[1..n -> CaseKinds] : n \in 0..MaxCases}

\* p in s, for the strings of the model
in(p, s) == p = "" \/ p = s \/ (p = "root:" /\ s = "root:x")

\* _evaluate_expected; result is "None" where action returned None and
\* where it did not return.  No returning action of the model takes
\* max_duration_ms.
evaluate_expected(result, expected, error) ==
    IF expected.type = "exact" THEN result = expected.value
    ELSE IF expected.type = "contains"
    THEN IF result = "None" THEN FALSE ELSE in(expected.substring, result)
    ELSE IF expected.type = "no_forbidden_patterns"
    THEN LET result_str == IF result = "None" THEN "" ELSE result
         IN ~(\E i \in 1..Len(expected.forbidden) : in(expected.forbidden[i], result_str))
    ELSE IF expected.type = "timeout_or_error" THEN error # "None"
    ELSE FALSE

EvalResult(passed_, error) == [passed |-> passed_, error |-> error]

\* run_gate is called: the cases are loaded, the loop begins
CallRunGate ==
    \E cases \in CaseSets, threshold \in Rates :
        /\ gate.pc = "idle"
        /\ gate' = [pc |-> IF cases = << >> THEN "report" ELSE "load",
                    cases |-> cases, threshold |-> threshold, results |-> << >>,
                    timer |-> "off", spin |-> 0, report |-> << >>]
        /\ UNCHANGED <<registry_file, audit_log, clock, last, queue_file, staging_tree,
                       prod_tree, run, conc, writers, loader>>

\* run_case returns result: it is appended, the loop goes on
returns(result) ==
    LET results == Append(gate.results, result) IN
    [gate EXCEPT !.results = results,
                 !.timer = "off",
                 !.pc = IF Len(results) = Len(gate.cases) THEN "report" ELSE "load"]

case == gate.cases[Len(gate.results) + 1]

\* run_case up to exec_module: the skill file, the module spec
Load ==
    /\ gate.pc = "load"
    /\ gate' = IF ~case.file THEN returns(EvalResult(FALSE, "Skill file not found"))
               ELSE IF ~case.spec THEN returns(EvalResult(FALSE, "Failed to create module spec"))
               ELSE [gate EXCEPT !.pc = "exec_module"]
    /\ UNCHANGED <<registry_file, audit_log, clock, last, queue_file, staging_tree,
                   prod_tree, run, conc, writers, loader>>

\* spec.loader.exec_module(module), hasattr(module, "action"), and the timer
\* is set.  An Exception is caught by run_case's except Exception; a
\* SystemExit is no Exception and leaves run_case and run_gate.
ExecModule ==
    /\ gate.pc = "exec_module"
    /\ gate' = IF case.exec_module = "Exception"
               THEN returns(EvalResult(FALSE, "Unexpected error"))
               ELSE IF case.exec_module = "SystemExit"
               THEN [gate EXCEPT !.pc = "raised"]
               ELSE IF ~case.has_action
               THEN returns(EvalResult(FALSE, "Skill has no action() function"))
               ELSE [gate EXCEPT !.pc = "action", !.timer = "set"]
    /\ UNCHANGED <<registry_file, audit_log, clock, last, queue_file, staging_tree,
                   prod_tree, run, conc, writers, loader>>

\* action_func(**input_data) comes to its end: it returns or raises; the
\* except BaseException takes every condition as the error
Action ==
    /\ gate.pc = "action"
    /\ case.action \in {"returns", "Exception", "SystemExit"}
    /\ LET error == IF case.action = "returns" THEN "None" ELSE "str(e)" IN
       gate' = returns(EvalResult(evaluate_expected(case.result, case.expected, error),
                                  error))
    /\ UNCHANGED <<registry_file, audit_log, clock, last, queue_file, staging_tree,
                   prod_tree, run, conc, writers, loader>>

\* an action that never returns by itself goes once more round its loop
Spin ==
    /\ gate.pc = "action"
    /\ case.action \in {"loops", "swallows"}
    /\ gate' = [gate EXCEPT !.spin = 1 - @]
    /\ UNCHANGED <<registry_file, audit_log, clock, last, queue_file, staging_tree,
                   prod_tree, run, conc, writers, loader>>

\* timeout_ms have elapsed: SIGALRM, _timeout_handler raises TimeoutError in
\* the action.  The timer was set without an interval and fires once.
Alarm ==
    /\ gate.pc = "action"
    /\ gate.timer = "set"
    /\ case.action \in {"loops", "swallows"}
    /\ gate' = IF case.action = "loops"
               THEN returns(EvalResult(evaluate_expected("None", case.expected, "timeout"),
                                       "timeout"))
               ELSE [gate EXCEPT !.timer = "fired"]
    /\ UNCHANGED <<registry_file, audit_log, clock, last, queue_file, staging_tree,
                   prod_tree, run, conc, writers, loader>>

\* run_gate after its loop: the counts, the rate, the GateReport
Report ==
    /\ gate.pc = "report"
    /\ LET total == Len(gate.results)
           passed_count == Cardinality({i \in 1..total : gate.results[i].passed})
       IN gate' = [gate EXCEPT !.pc = "returned",
                               !.report = <<run_gate("replay", gate.threshold, total,
                                                     passed_count)>>]
    /\ UNCHANGED <<registry_file, audit_log, clock, last, queue_file, staging_tree,
                   prod_tree, run, conc, writers, loader>>

NextGate ==
    \/ CallRunGate
    \/ Load
    \/ ExecModule
    \/ Action
    \/ Spin
    \/ Alarm
    \/ Report

\* The interpreter goes on with every step of run_gate, and the signal of
\* a timer that is set is delivered; that an action leaves its loop is not
\* assumed.
SpecGate ==
    /\ Init /\ [][NextGate]_vars
    /\ WF_vars(Load) /\ WF_vars(ExecModule) /\ WF_vars(Action)
    /\ WF_vars(Alarm) /\ WF_vars(Report)

(* ------------------- the audit log, write by write --------------------- *)
MaxValue == 2        \* characters of a value passed to log
MaxLogCalls == 3     \* calls of log, over all writers

Chars == {"x", " ", "\n"}

\* the value of the one keyword argument of a call: << >> for None, or
\* <<string>>
LogValues == {<< >>} \cup {<<string>> : string \in UNION {[1..n -> Chars] : n \in 0..MaxValue}}

\* AuditLogger.log up to the open: the text of the line.  "T" stands for
\* the timestamp and "[OP]" for the operation in brackets; a value holding
\* a space is put in quotes, a value None is left out.  Every character
\* carries the call it comes from.
format(call, value) ==
    LET str_value == IF \E i \in 1..Len(value[1]) : value[1][i] = " "
                     THEN <<"\"">> \o value[1] \o <<"\"">>
                     ELSE value[1]
        kv_string == IF value = << >> THEN << >> ELSE <<"k", "=">> \o str_value
        log_line == IF kv_string # << >>
                    THEN <<"T", " ", "[OP]", " ">> \o kv_string \o <<"\n">>
                    ELSE <<"T", " ", "[OP]", "\n">>
    IN [i \in 1..Len(log_line) |-> [call |-> call, ch |-> log_line[i]]]

\* a writer calls log(operation, k=value) and builds log_line
CallLog(w, value) ==
    /\ writers.procs[w].pc = "idle"
    /\ writers.calls < MaxLogCalls
    /\ writers' = [writers EXCEPT !.calls = @ + 1,
                                  !.procs[w] = [pc |-> "open", call |-> writers.calls + 1,
                                                log_line |-> format(writers.calls + 1, value),
                                                buffer |-> << >>]]
    /\ UNCHANGED <<registry_file, audit_log, clock, last, queue_file, staging_tree,
                   prod_tree, run, conc, gate, loader>>

\* open(self.log_path, "a"): the file is made if it is missing and is not
\* truncated; every write of this descriptor goes to the end of the file
OpenAppend(w) ==
    /\ writers.procs[w].pc = "open"
    /\ writers' = [writers EXCEPT !.procs[w].pc = "write"]
    /\ UNCHANGED <<registry_file, audit_log, clock, last, queue_file, staging_tree,
                   prod_tree, run, conc, gate, loader>>

\* f.write(log_line): the text goes into the file object's buffer
WriteLine(w) ==
    /\ writers.procs[w].pc = "write"
    /\ writers' = [writers EXCEPT !.procs[w].pc = "close",
                                  !.procs[w].buffer = writers.procs[w].log_line]
    /\ UNCHANGED <<registry_file, audit_log, clock, last, queue_file, staging_tree,
                   prod_tree, run, conc, gate, loader>>

\* what one write of a descriptor opened for appending leaves in the file
append(file, buffer) == file \o buffer

\* leaving the with block: the buffer is flushed in one write, and log returns
CloseFile(w) ==
    /\ writers.procs[w].pc = "close"
    /\ writers' = [writers EXCEPT !.file = append(@, writers.procs[w].buffer),
                                  !.returned = @ \cup {writers.procs[w].call},
                                  !.procs[w] = NoWriters.procs[w]]
    /\ UNCHANGED <<registry_file, audit_log, clock, last, queue_file, staging_tree,
                   prod_tree, run, conc, gate, loader>>

NextAudit ==
    \/ \E w \in Writers, value \in LogValues : CallLog(w, value)
    \/ \E w \in Writers : OpenAppend(w)
    \/ \E w \in Writers : WriteLine(w)
    \/ \E w \in Writers : CloseFile(w)

SpecAudit == Init /\ [][NextAudit]_vars

(* ---------------------------- the skill loader ------------------------- *)
\* the parameters validate_manifest is defined with, and the keyword
\* arguments load_manifest passes to it besides the manifest
validate_manifest_parameters == {"manifest"}

load_manifest_keywords == {"enforce_mvp_constraints"}

\* SkillLoader._resolve_version: the pin, or the registry's current_prod as
\* the registry file has it now; None stands for the ValueError
resolve_version(data, name, version) ==
    IF version # None THEN version
    ELSE IF name \notin DOMAIN data.skills THEN None
    ELSE data.skills[name].current_prod

\* SkillLoader.load_manifest on a directory that exists
load_manifest(files) ==
    IF ~(load_manifest_keywords \subseteq validate_manifest_parameters)
    THEN [raises |-> "TypeError", manifest |-> << >>]
    ELSE IF ~validate_manifest(files.manifest).is_valid
    THEN [raises |-> "ValueError", manifest |-> << >>]
    ELSE [raises |-> "none", manifest |-> <<files.manifest>>]

LoadedSkill(name, version, manifest, module) ==
    [name |-> name, version |-> version, manifest |-> manifest, module |-> module]

\* SkillLoader.load: what it raises, the LoadedSkill it returns, its cache
\* afterwards.  The module is the code that exec_module ran.
SkillLoader_load(cache, data, prod, name, version) ==
    LET resolved == resolve_version(data, name, version)
        cache_key == <<name, resolved>>
        manifest == load_manifest(prod[cache_key])
        loaded == LoadedSkill(name, resolved, manifest.manifest[1], prod[cache_key].code)
    IN
    IF resolved = None
    THEN [raises |-> "ValueError", returns |-> << >>, cache |-> cache]
    ELSE IF cache_key \in DOMAIN cache
    THEN [raises |-> "none", returns |-> <<cache[cache_key]>>, cache |-> cache]
    ELSE IF cache_key \notin DOMAIN prod
    THEN [raises |-> "FileNotFoundError", returns |-> << >>, cache |-> cache]
    ELSE IF manifest.raises # "none"
    THEN [raises |-> manifest.raises, returns |-> << >>, cache |-> cache]
    ELSE [raises |-> "none", returns |-> <<loaded>>, cache |-> (cache_key :> loaded) @@ cache]

\* load(name) or load(name, version) on the one loader
LoaderLoad(name, version) ==
    LET r == SkillLoader_load(loader.cache, load, prod_tree, name, version) IN
    /\ ~run.active
    /\ loader' = [cache |-> r.cache]
    /\ last' = [op |-> "load", name |-> name, version |-> version,
                result |-> IF r.raises = "none" THEN "returned" ELSE r.raises,
                loaded |-> r.returns]
    /\ UNCHANGED registry_vars
    /\ UNCHANGED <<queue_file, staging_tree, prod_tree, run, conc, gate, writers>>

\* packages that pass the static gate and the manifest validator, of
\* MaxTexts source texts
Restaged == {generated.pkg : generated \in Regenerated}

\* skills staged, promoted and rolled back while a loader loads them
NextLoader ==
    \/ \E name \in Names, version \in Versions : AddStaging(name, version)
    \/ \E skill_pkg \in Restaged : WriteToStaging(skill_pkg)
    \/ \E skill_name \in Names : PromoteStaged(skill_name)
    \/ \E name \in Names, version \in Versions : Rollback(name, version)
    \/ \E name \in Names, version \in Versions \cup {None} : LoaderLoad(name, version)

\* as Init, at a time when the clock reads MaxClock
InitLoader ==
    /\ registry_file = Missing
    /\ audit_log = << >>
    /\ clock = MaxClock
    /\ last = NoCall
    /\ queue_file = NoQueue
    /\ staging_tree = << >>
    /\ prod_tree = << >>
    /\ run = NoRun
    /\ conc = NoConc
    /\ gate = NoGateRun
    /\ writers = NoWriters
    /\ loader = NoLoader

SpecLoader == InitLoader /\ [][NextLoader]_vars

(* ------------------- build_queue on any queue and any log --------------- *)
MaxItems == 2        \* items of the queue build_queue is given

\* the queues day_logger and evolve leave in the queue file: every item has
\* its own dedup key and id, a stripped capability text in the spelling
\* first observed, and the status evolve gave it
Queues ==
    {items \in UNION {[1..n -> [id : 1..MaxItems,
                                capability : {text \in Texts : ~text.padded},
                                occurrences : {1},
                                context : {None},
                                status : {"pending", "completed", "failed"}]] :
                        n \in 0..MaxItems} :
        \A i \in 1..Len(items) :
            /\ items[i].id = i
            /\ \A j \in 1..Len(items) :
                   items[i].capability.key = items[j].capability.key => i = j}

\* the (capability, context) pairs build_queue is given: any spelling, with
\* or without white space around it
Observations == UNION {[1..n -> {<<text, text>> : text \in Texts}] : n \in 0..MaxLog}

\* build_queue(capabilities, existing), called once, the queue file holding
\* existing before and the result after
BuildQueue ==
    \E capabilities \in Observations :
        LET items == build_queue(capabilities, queue_file.items) IN
        /\ last = NoCall
        /\ queue_file' = [exists |-> TRUE, items |-> items]
        /\ last' = [op |-> "build_queue", name |-> None, version |-> None,
                    result |-> "ok", capabilities |-> capabilities]
        /\ UNCHANGED registry_vars
        /\ UNCHANGED <<staging_tree, prod_tree, run, conc, gate, writers, loader>>

InitQueue ==
    /\ registry_file = Missing
    /\ audit_log = << >>
    /\ clock = 1
    /\ last = NoCall
    /\ \E items \in Queues : queue_file = [exists |-> TRUE, items |-> items]
    /\ staging_tree = << >>
    /\ prod_tree = << >>
    /\ run = NoRun
    /\ conc = NoConc
    /\ gate = NoGateRun
    /\ writers = NoWriters
    /\ loader = NoLoader

SpecQueue == InitQueue /\ [][BuildQueue]_vars

(* ------------------- the two validators, each on its own ----------------- *)
MaxNodes == 2        \* nodes of a syntax tree that the walk looks at

\* two of SUSPICIOUS_PATTERNS
Patterns == {"../", "/etc/"}

\* the nodes ast.walk yields, by what the walk finds in them
Nodes == {"Import", "Import forbidden", "ImportFrom forbidden", "Call forbidden",
          "Attribute forbidden", "Name"}

\* A source text given to ASTGate.check: the patterns re.search finds in it,
\* what ast.parse does with it (a tree, SyntaxError, or another exception:
\* RecursionError for deeply nested code, UnicodeEncodeError for a lone
\* surrogate), and the nodes of the tree.
Sources ==
    {code \in [patterns : SUBSET Patterns,
               parse : {"tree", "SyntaxError", "RecursionError", "UnicodeEncodeError"},
               nodes : UNION {[1..n -> Nodes] : n \in 0..MaxNodes}] :
        code.parse # "tree" => code.nodes = << >>}

\* ASTGate._check_strings: one violation per pattern found, in the order of
\* SUSPICIOUS_PATTERNS
check_strings(code) ==
    (IF "../" \in code.patterns THEN <<"Suspicious pattern detected: ../">> ELSE << >>)
    \o (IF "/etc/" \in code.patterns THEN <<"Suspicious pattern detected: /etc/">> ELSE << >>)

\* _check_import, _check_import_from, _check_call, _check_attribute
check_node(node) ==
    IF node = "Import forbidden" THEN <<"Forbidden import: ">>
    ELSE IF node = "ImportFrom forbidden" THEN <<"Forbidden import from: ">>
    ELSE IF node = "Call forbidden" THEN <<"Forbidden call: ">>
    ELSE IF node = "Attribute forbidden" THEN <<"Forbidden attribute access: ">>
    ELSE << >>

RECURSIVE walk(_)
walk(nodes) == IF nodes = << >> THEN << >> ELSE check_node(Head(nodes)) \o walk(Tail(nodes))

GateResult(passed_, violations) == [passed |-> passed_, violations |-> violations]

\* ASTGate.check: only SyntaxError is caught around ast.parse
ASTGate_check(code) ==
    LET violations == check_strings(code) \o walk(code.nodes) IN
    IF code.parse = "SyntaxError"
    THEN [raises |-> "none", returns |-> <<GateResult(FALSE, <<"Syntax error: ">>)>>]
    ELSE IF code.parse # "tree"
    THEN [raises |-> code.parse, returns |-> << >>]
    ELSE [raises |-> "none", returns |-> <<GateResult(Len(violations) = 0, violations)>>]

\* ASTGate().check(code), called once
ASTGateCheck ==
    \E code \in Sources :
        /\ last = NoCall
        /\ last' = [op |-> "check", name |-> None, version |-> None,
                    result |-> ASTGate_check(code), code |-> code]
        /\ UNCHANGED registry_vars
        /\ UNCHANGED pipeline_vars

\* validate_manifest(manifest), called once
ValidateManifest ==
    \E manifest \in Manifests :
        /\ last = NoCall
        /\ last' = [op |-> "validate_manifest", name |-> None, version |-> None,
                    result |-> validate_manifest(manifest), manifest |-> manifest]
        /\ UNCHANGED registry_vars
        /\ UNCHANGED pipeline_vars

NextValidators == ASTGateCheck \/ ValidateManifest

SpecValidators == Init /\ [][NextValidators]_vars

(* ------------------- the registry's lifecycle claims ------------------- *)
\* the registry a reader loads now
registry == load

versions_with(entry, status) ==
    {v \in DOMAIN entry.versions : entry.versions[v].status = status}

\* C1: every skill entry has at most one version whose status is prod, and
\* when current_prod is not None it names that one prod version.
C1_OneProdIsCurrentProd ==
    \A n \in DOMAIN registry.skills :
        LET entry == registry.skills[n] IN
        /\ Cardinality(versions_with(entry, "prod")) <= 1
        /\ entry.current_prod # None =>
               versions_with(entry, "prod") = {entry.current_prod}

\* C4: a rollback (Registry.rollback or rollback_skill) to an existing target
\* whose promoted_at is None fails, whatever the target's status, and leaves
\* the registry unchanged.
C4_RollbackNeedsPromotedAt ==
    [][(/\ last'.op \in {"rollback", "rollback_skill"}
        /\ last'.name \in DOMAIN registry.skills
        /\ last'.version \in DOMAIN registry.skills[last'.name].versions
        /\ registry.skills[last'.name].versions[last'.version].promoted_at = None)
       => (/\ last'.result \in {"False", "ValueError"}
           /\ registry_file' = registry_file)]_vars

\* C5: every skill entry has at most one version whose status is staging,
\* and that version is the one current_staging names.
C5_OneStagingIsCurrentStaging ==
    \A n \in DOMAIN registry.skills :
        LET entry == registry.skills[n] IN
        /\ Cardinality(versions_with(entry, "staging")) <= 1
        /\ versions_with(entry, "staging") \subseteq {entry.current_staging}

\* C6: every version whose status is not staging has a promoted_at.
C6_PromotedAtOnceOutOfStaging ==
    \A n \in DOMAIN registry.skills :
        \A v \in DOMAIN registry.skills[n].versions :
            registry.skills[n].versions[v].status # "staging" =>
                registry.skills[n].versions[v].promoted_at # None

(* ------------------------ the controller's claim ----------------------- *)
\* the record of a version in a registry file, NoVersion when it has none
NoVersion == [status |-> "none"]

version_of(file, name, version) ==
    IF file.state = "missing" THEN NoVersion
    ELSE IF name \notin DOMAIN file.data.skills THEN NoVersion
    ELSE IF version \notin DOMAIN file.data.skills[name].versions THEN NoVersion
    ELSE file.data.skills[name].versions[version]

\* C2: a turn of evolve's loop marks its item completed, or saves the registry,
\* only if for that item the static gate passed, the manifest validated and
\* the sandbox passed or was not run; the version it adds records the gate as
\* passed and the sandbox as passed or, when not run, as skipped.  An item
\* whose package fails the static gate, the manifest validation or the
\* sandbox is marked failed and the registry is left as it was.
C2_CompletedOnlyThroughTheGates ==
    [][(last'.op = "evolve_item" /\ last'.result # "skipped") =>
        LET added == version_of(registry_file', last'.name, last'.version) IN
        /\ run'.items[last'.item].status = last'.result
        /\ (last'.result = "completed" \/ registry_file' # registry_file) =>
              /\ last'.result = "completed"
              /\ last'.gate_passed
              /\ last'.manifest_valid
              /\ last'.sandbox \in {"passed", "not run"}
              /\ added # NoVersion
              /\ added.status = "staging"
              /\ added.validation.ast_gate.passed = "True"
              /\ IF last'.sandbox = "not run"
                 THEN added.validation.sandbox.skipped
                 ELSE added.validation.sandbox.passed = "True"
        /\ (/\ last'.generated
            /\ (~last'.gate_passed \/ ~last'.manifest_valid \/ last'.sandbox = "failed")) =>
              /\ last'.result = "failed"
              /\ registry_file' = registry_file
      ]_vars

\* an item was completed with the sandbox not run, and its version is in the
\* registry with sandbox skipped
C2_Witness ==
    /\ last.op = "evolve_item"
    /\ last.result = "completed"
    /\ last.sandbox = "not run"
    /\ version_of(registry_file, last.name, last.version) # NoVersion
    /\ version_of(registry_file, last.name, last.version).validation.sandbox.skipped

(* ------------------------- the promoter's claim ------------------------ *)
\* the thresholds the gates are to be held to, in percent
Thresholds == <<100, 99, 100>>

GateNames == <<"replay", "regression", "redteam">>

pointer_of(file, name, field) ==
    IF file.state = "missing" THEN None
    ELSE IF name \notin DOMAIN file.data.skills THEN None
    ELSE file.data.skills[name][field]

\* C3: a promote_skill call changes the prod tree or current_prod only when
\* its three gates passed at 1.0, 0.99 and 1.0; a call whose gates ran and of
\* which one failed returns False, appends one PROMOTE_FAILED line naming
\* exactly the failed gates, and leaves the prod tree, current_prod and
\* current_staging as they were.
C3_PromotionOnlyThroughTheGates ==
    [][last'.op = "promote_skill" =>
        LET ran == last'.cases # << >>
            reports == [i \in 1..3 |-> run_gate(GateNames[i], Thresholds[i],
                                                last'.cases[i][1], last'.cases[i][2])]
            failed == SelectSeq(reports, LAMBDA report : ~report.gate_passed)
            same(field) == pointer_of(registry_file', last'.name, field)
                           = pointer_of(registry_file, last'.name, field)
        IN
        /\ (prod_tree' # prod_tree \/ ~same("current_prod")) => (ran /\ Len(failed) = 0)
        /\ (ran /\ Len(failed) > 0) =>
              /\ last'.result = "False"
              /\ audit_log' = Append(audit_log,
                     AuditLine("PROMOTE_FAILED",
                               [skill |-> last'.name, version |-> last'.version,
                                failed_gates |-> [i \in 1..Len(failed) |->
                                                     failed[i].gate_name]]))
              /\ prod_tree' = prod_tree
              /\ same("current_prod")
              /\ same("current_staging")
      ]_vars

\* a promote_skill call on a skill that has a prod version ran its gates, one
\* failed, and it returned False
C3_Witness ==
    /\ last.op = "promote_skill"
    /\ last.cases # << >>
    /\ last.result = "False"
    /\ pointer_of(registry_file, last.name, "current_prod") # None
    /\ pointer_of(registry_file, last.name, "current_staging") # None

(* ----------------------- all-or-nothing on failure --------------------- *)
\* C10: a rollback_skill or promote_skill call in which a step raised (the
\* prod-tree copy, the registry save or an audit write) leaves the registry,
\* the audit log and the prod tree as they were: no DISABLE, ROLLBACK or
\* PROMOTE line without the registry change, no registry change without its
\* lines.
C10_AllOrNothing ==
    [][(last'.op \in {"rollback_skill", "promote_skill"} /\ last'.result = "OSError") =>
        /\ registry_file' = registry_file
        /\ audit_log' = audit_log
        /\ prod_tree' = prod_tree
      ]_vars

(* ------------------------ the concurrency claims ---------------------- *)
\* C7: concurrent load-mutate-save sections exclude each other, so no update
\* is lost: once every call has returned, each version whose add_staging
\* returned is in the registry.
C7_NoLostUpdate ==
    (/\ \A p \in Procs : conc.procs[p].pc = "idle"
     /\ registry_file.state # "partial")
    => \A pair \in conc.added : version_of(registry_file, pair[1], pair[2]) # NoVersion

\* C8: the registry file parses at every moment, also while a save is in
\* progress and after a save was interrupted: a reader never finds it empty
\* or partial.
C8_RegistryFileParses == registry_file.state # "partial"

\* C9: every PROMOTE line for version V of a skill comes after a registry save
\* that wrote V as the skill's current_prod.
C9_PromoteLineAfterItsSave ==
    \A i \in 1..Len(audit_log) :
        audit_log[i].operation = "PROMOTE" =>
            <<audit_log[i].kwargs.skill, audit_log[i].kwargs.version>> \in conc.made_prod

(* ------------------------ the rollbacker's claims ---------------------- *)
\* C11: a rollback_skill call on an unknown skill, an unknown version or a
\* staging target that was never promoted raises ValueError and changes
\* nothing: the registry file is as it was and no audit line is written.
C11_RollbackSkillFailsFast ==
    [][(/\ last'.op = "rollback_skill"
        /\ \/ last'.name \notin DOMAIN registry.skills
           \/ last'.version \notin DOMAIN registry.skills[last'.name].versions
           \/ LET target == registry.skills[last'.name].versions[last'.version] IN
              target.status = "staging" /\ target.promoted_at = None)
       => (/\ last'.result = "ValueError"
           /\ registry_file' = registry_file
           /\ audit_log' = audit_log)]_vars

\* rollback_skill raised ValueError on a staging target that was never
\* promoted, on a skill that has a prod version
C11_Witness ==
    /\ last.op = "rollback_skill"
    /\ last.result = "ValueError"
    /\ last.name \in DOMAIN registry.skills
    /\ last.version \in DOMAIN registry.skills[last.name].versions
    /\ registry.skills[last.name].versions[last.version].status = "staging"
    /\ registry.skills[last.name].versions[last.version].promoted_at = None
    /\ registry.skills[last.name].current_prod \notin {None, last.version}

\* C12: a rollback_skill call that returns True leaves the target prod and
\* current_prod naming it.  A prior prod version other than the target is
\* disabled, with disabled_at set and reason "Rollback to <target>", and one
\* DISABLE line for it comes before the ROLLBACK line; otherwise no DISABLE
\* line is written and no version becomes disabled.  The ROLLBACK line has
\* from = the prior version or "none", and to = the target.
C12_RollbackSkillEffect ==
    [][(last'.op = "rollback_skill" /\ last'.result = "True") =>
        LET name == last'.name
            target == last'.version
            before == registry.skills[name]
            after == registry_file'.data.skills[name]
            prior == before.current_prod
            lines == SubSeq(audit_log', Len(audit_log) + 1, Len(audit_log'))
            reason == [kind |-> "Rollback to", version |-> target]
            DISABLE == [operation |-> "DISABLE",
                        kwargs |-> [skill |-> name, version |-> prior, reason |-> reason]]
            ROLLBACK == [operation |-> "ROLLBACK",
                         kwargs |-> [skill |-> name,
                                     from |-> IF prior = None
                                              THEN [none |-> TRUE, version |-> None]
                                              ELSE [none |-> FALSE, version |-> prior],
                                     to |-> target]]
        IN
        /\ registry_file'.state = "complete"
        /\ after.versions[target].status = "prod"
        /\ after.current_prod = target
        /\ SubSeq(audit_log', 1, Len(audit_log)) = audit_log
        /\ IF prior # None /\ prior # target
           THEN /\ after.versions[prior].status = "disabled"
                /\ after.versions[prior].disabled_at # None
                /\ after.versions[prior].disabled_reason = reason
                /\ lines = <<DISABLE, ROLLBACK>>
           ELSE /\ lines = <<ROLLBACK>>
                /\ \A v \in DOMAIN after.versions :
                       after.versions[v].status = "disabled" =>
                           before.versions[v].status = "disabled"
      ]_vars

\* rollback_skill returned True after it disabled the prior prod version
C12_Witness ==
    /\ last.op = "rollback_skill"
    /\ last.result = "True"
    /\ Len(audit_log) >= 2
    /\ audit_log[Len(audit_log)].operation = "ROLLBACK"
    /\ audit_log[Len(audit_log) - 1].operation = "DISABLE"
    /\ audit_log[Len(audit_log)].kwargs.to = last.version
    /\ registry.skills[last.name].current_prod = last.version

(* ------------------------- Registry.promote's claims ------------------- *)
\* C13: a Registry.promote(name, V) that returns True leaves V prod with a
\* promoted_at and current_prod = V, turns every version that was prod into
\* disabled with disabled_at set and reason "Superseded by V", clears
\* current_staging when it names V, and changes no other version of the
\* skill and no other skill.
C13_PromoteEffect ==
    [][(last'.op = "promote" /\ last'.result = "True") =>
        LET name == last'.name
            V == last'.version
            before == registry.skills[name]
            after == registry_file'.data.skills[name]
            priors == versions_with(before, "prod") \ {V}
        IN
        /\ registry_file'.state = "complete"
        /\ after.versions[V].status = "prod"
        /\ after.versions[V].promoted_at # None
        /\ after.current_prod = V
        /\ \A v \in priors :
              /\ after.versions[v].status = "disabled"
              /\ after.versions[v].disabled_at # None
              /\ after.versions[v].disabled_reason = [kind |-> "Superseded by", version |-> V]
        /\ after.current_staging =
              IF before.current_staging = V THEN None ELSE before.current_staging
        /\ DOMAIN after.versions = DOMAIN before.versions
        /\ \A v \in DOMAIN before.versions \ (priors \cup {V}) :
              after.versions[v] = before.versions[v]
        /\ \A other \in DOMAIN registry.skills \ {name} :
              registry_file'.data.skills[other] = registry.skills[other]
      ]_vars

\* C14: Registry.promote(name, V) on an unknown skill, an unknown version or
\* a version whose status is not staging returns False and leaves the
\* registry file as it was; a promote(name, V) right after one that returned
\* True does so.
C14_PromoteRefusesNonStaging ==
    [][last'.op = "promote" =>
        /\ (\/ last'.name \notin DOMAIN registry.skills
            \/ last'.version \notin DOMAIN registry.skills[last'.name].versions
            \/ registry.skills[last'.name].versions[last'.version].status # "staging")
           => (last'.result = "False" /\ registry_file' = registry_file)
        /\ (/\ last.op = "promote"
            /\ last.result = "True"
            /\ last.name = last'.name
            /\ last.version = last'.version)
           => (last'.result = "False" /\ registry_file' = registry_file)
      ]_vars

\* promote returned False on the version that is prod
C14_Witness ==
    /\ last.op = "promote"
    /\ last.result = "False"
    /\ last.name \in DOMAIN registry.skills
    /\ last.version \in DOMAIN registry.skills[last.name].versions
    /\ registry.skills[last.name].versions[last.version].status = "prod"
    /\ registry.skills[last.name].current_prod = last.version

(* --------------------------- the queue's claims ------------------------ *)
\* a status may stay, or move on from pending or from processing
moves_on(before, after) ==
    \/ after = before
    \/ before = "pending" /\ after \in {"processing", "completed", "failed"}
    \/ before = "processing" /\ after \in {"completed", "failed"}

\* C15: over build_queue merges and evolve runs the status of a queue item
\* (told by its id) only moves pending -> processing -> completed or failed,
\* in the queue file and in the queue evolve holds: a completed or failed
\* item never is pending or processing again, also when a merge observes its
\* capability again.
C15_StatusNeverRevives ==
    [][/\ \A i \in 1..Len(queue_file.items), j \in 1..Len(queue_file'.items) :
            queue_file.items[i].id = queue_file'.items[j].id =>
                moves_on(queue_file.items[i].status, queue_file'.items[j].status)
       /\ (run.active /\ run'.active) =>
            \A i \in 1..Len(run.items), j \in 1..Len(run'.items) :
                run.items[i].id = run'.items[j].id =>
                    moves_on(run.items[i].status, run'.items[j].status)
       /\ (run.active /\ ~run'.active /\ last'.result = "returned") =>
            \A i \in 1..Len(run.items), j \in 1..Len(queue_file'.items) :
                run.items[i].id = queue_file'.items[j].id =>
                    moves_on(run.items[i].status, queue_file'.items[j].status)
      ]_vars

\* the last merge observed again the capability of an item that is completed
C15_Witness ==
    /\ last.op = "day_logger"
    /\ \E i \in 1..Len(queue_file.items), k \in 1..Len(last.log) :
          /\ queue_file.items[i].status = "completed"
          /\ queue_file.items[i].occurrences >= 2
          /\ lower(strip(last.log[k])) = lower(strip(queue_file.items[i].capability))

\* C16: a step that ends an evolve run is evolve's return, and the queue file
\* it leaves shows every item that was pending when the run began as
\* completed or failed, whatever happened to the items before it.
C16_EveryPendingItemClassified ==
    [][(run.active /\ ~run'.active) =>
          /\ last'.result = "returned"
          /\ Len(queue_file'.items) = Len(queue_file.items)
          /\ \A i \in 1..Len(queue_file.items) :
                queue_file.items[i].status = "pending" =>
                    queue_file'.items[i].status \in {"completed", "failed"}
      ]_vars

\* C17: the turn of evolve's loop at an item that is not pending changes no
\* item, no registry file, no staging file and no audit log, and counts one
\* more skipped item and nothing else; the queue file evolve writes at its
\* return holds every item that was not pending unchanged.
C17_SkippedItemsUntouched ==
    [][/\ (/\ run.active
           /\ run.i <= Len(run.items)
           /\ run.items[run.i].status # "pending") =>
              /\ run'.active
              /\ run'.items = run.items
              /\ run'.summary = [run.summary EXCEPT !.skipped = @ + 1]
              /\ last'.result = "skipped"
              /\ UNCHANGED <<registry_file, audit_log, staging_tree, prod_tree, queue_file>>
       /\ (run.active /\ ~run'.active /\ last'.result = "returned") =>
              /\ Len(queue_file'.items) = Len(queue_file.items)
              /\ \A i \in 1..Len(queue_file.items) :
                    queue_file.items[i].status # "pending" =>
                        queue_file'.items[i] = queue_file.items[i]
      ]_vars

\* evolve returned from a run over a queue in which no item was pending, one
\* of them failed and one completed
C17_Witness ==
    /\ last.op = "evolve"
    /\ last.result = "returned"
    /\ last.summary.processed = 0
    /\ last.summary.skipped = Len(queue_file.items)
    /\ \E i, j \in 1..Len(queue_file.items) :
          /\ queue_file.items[i].status = "failed"
          /\ queue_file.items[j].status = "completed"

\* the place of an operation in an item's order of events, 0 for the others
rank(operation) ==
    CASE operation = "GENERATE" -> 1
      [] operation = "AST_GATE" -> 2
      [] operation \in {"MANIFEST_INVALID", "STAGING"} -> 3
      [] operation = "SANDBOX" -> 4
      [] OTHER -> 0

ordered(line) == rank(line.operation) > 0

\* C18: every step taken during an evolve run that writes the audit log or the registry
\* is the turn of one item n: the audit log only grows, the lines added are
\* GENERATE, AST_GATE, then MANIFEST_INVALID or STAGING, then SANDBOX, in this
\* order and from the first on, with at most one other line and that one last;
\* the turn marks item n, pending before, completed or failed; every item
\* before n is no longer pending and every other item is as it was.
C18_EventsInOrderItemByItem ==
    [][(run.active /\ (audit_log' # audit_log \/ registry_file' # registry_file)) =>
          /\ run'.active
          /\ run'.i = run.i + 1
          /\ Len(audit_log') >= Len(audit_log)
          /\ SubSeq(audit_log', 1, Len(audit_log)) = audit_log
          /\ LET n == run.i
                 new == SubSeq(audit_log', Len(audit_log) + 1, Len(audit_log'))
                 events == SelectSeq(new, ordered)
             IN  /\ \A k \in 1..Len(events) : rank(events[k].operation) = k
                 /\ \A k \in 1..Len(new) : ~ordered(new[k]) => k = Len(new)
                 /\ run.items[n].status = "pending"
                 /\ run'.items[n].status \in {"completed", "failed"}
                 /\ \A j \in 1..Len(run.items) :
                       /\ j < n => run.items[j].status # "pending"
                       /\ j # n => run'.items[j] = run.items[j]
      ]_vars

\* the second item of a run was completed after GENERATE, AST_GATE, STAGING
\* and SANDBOX were written for it, the first item being failed
C18_Witness ==
    /\ run.active
    /\ last.op = "evolve_item"
    /\ last.item = 2
    /\ last.result = "completed"
    /\ run.items[1].status = "failed"
    /\ Len(audit_log) >= 5
    /\ LET m == Len(audit_log) IN
       <<audit_log[m - 3].operation, audit_log[m - 2].operation,
         audit_log[m - 1].operation, audit_log[m].operation>>
           = <<"GENERATE", "AST_GATE", "STAGING", "SANDBOX">>

\* C19: in a run that writes the audit log, the turn of a pending item adds
\* a GENERATE_FAILED line exactly when generate_skill raised its ValueError;
\* when write_to_staging or add_staging raised, it adds an ERROR line; in
\* both cases the line is the last one added and the item is marked failed.
C19_GenerateFailedOnlyForTheGenerator ==
    [][(/\ run.active /\ run.audit
        /\ last'.op = "evolve_item" /\ last'.result # "skipped") =>
          LET new == SubSeq(audit_log', Len(audit_log) + 1, Len(audit_log'))
              final == new[Len(new)].operation
          IN  /\ count(new, {"GENERATE_FAILED"}) > 0
                    <=> last'.raised_at = <<"generate_skill", "ValueError">>
              /\ last'.raised_at[1] \in {"write_to_staging", "add_staging"} =>
                    /\ final = "ERROR"
                    /\ last'.result = "failed"
              /\ last'.raised_at = <<"generate_skill", "ValueError">> =>
                    /\ final = "GENERATE_FAILED"
                    /\ last'.result = "failed"
      ]_vars

\* C20: the turn of a pending item in a run started without skip_sandbox
\* whose sandbox is not available (no container runtime, or no image) marks
\* the item failed and leaves the registry as it was; a turn that completes
\* an item with the sandbox recorded as skipped belongs to a run started with
\* skip_sandbox.
C20_UnavailableSandboxRejects ==
    [][(run.active /\ last'.op = "evolve_item" /\ last'.result # "skipped") =>
          /\ (~run.skip_sandbox /\ ~run.sandbox_available) =>
                /\ last'.result = "failed"
                /\ registry_file' = registry_file
          /\ (/\ last'.result = "completed"
              /\ version_of(registry_file', last'.name, last'.version)
                    .validation.sandbox.skipped) => run.skip_sandbox
      ]_vars

(* ------------------------ the hashes' claim --------------------------- *)
\* C21: right after evolve's add_staging the registry's code_hash of the
\* version added is the hash of the skill source in the staging tree at
\* <name>/<version>, and right after promote_skill promoted a version the
\* registry's code_hash of it is the hash of the skill source in the prod
\* tree at <name>/<version>.
C21_CodeHashIsTheFilesHash ==
    [][/\ (last'.op = "evolve_item" /\ registry_file' # registry_file) =>
            version_of(registry_file', last'.name, last'.version).code_hash
                = compute_hash(staging_tree'[<<last'.name, last'.version>>].code)
       /\ (/\ last'.op = "promote_skill" /\ last'.result = "True"
           /\ audit_log' # audit_log) =>
            version_of(registry_file', last'.name, last'.version).code_hash
                = compute_hash(prod_tree'[<<last'.name, last'.version>>].code)
      ]_vars

(* --------------------- a version's life, step by step ------------------ *)
\* C22: in every step of add_staging, promote and rollback calls, a version
\* (told by skill name and version string) that was in the registry keeps
\* its status or goes staging -> prod in a promote, prod -> disabled in a
\* promote or a rollback, or disabled -> prod in a rollback.
C22_StatusMovesForward ==
    [][\A n \in Names, v \in Versions :
          LET before == version_of(registry_file, n, v)
              after == version_of(registry_file', n, v)
          IN  (before # NoVersion /\ after # NoVersion /\ after.status # before.status) =>
                \/ /\ before.status = "staging" /\ after.status = "prod"
                   /\ last'.op = "promote"
                \/ /\ before.status = "prod" /\ after.status = "disabled"
                   /\ last'.op \in {"promote", "rollback", "rollback_skill"}
                \/ /\ before.status = "disabled" /\ after.status = "prod"
                   /\ last'.op \in {"rollback", "rollback_skill"}
      ]_vars

\* C23: for every version in the registry, with the datetimes in the order
\* they were read from the clock: created_at <= promoted_at when promoted_at
\* is set, promoted_at <= disabled_at when both are set, and created_at <=
\* disabled_at when disabled_at is set.
C23_TimestampsInOrder ==
    \A n \in DOMAIN registry.skills :
        \A v \in DOMAIN registry.skills[n].versions :
            LET sv == registry.skills[n].versions[v] IN
            /\ sv.promoted_at # None => sv.created_at <= sv.promoted_at
            /\ sv.disabled_at # None => sv.created_at <= sv.disabled_at
            /\ (sv.promoted_at # None /\ sv.disabled_at # None) =>
                    sv.promoted_at <= sv.disabled_at

(* ------------------------- the sandbox's claims ------------------------ *)
\* C24: SandboxRunner.run returns passed = true exactly when wait returned
\* exit code 0 and the logs read contain VERIFICATION_SUCCESS; when wait
\* raised (the timeout) passed is false and metrics has timeout = true; when
\* no container was started (image not found, API error, another error) or
\* the runner raised, passed is false.
C24_PassedNeedsBoth ==
    last.op = "sandbox_run" =>
        LET r == last.result
            exit0 == /\ ~last.waited.raises
                     /\ last.waited.result = <<0>>
            marked == /\ ~last.logged.raises
                      /\ \E i \in 1..Len(last.logged.lines) : last.logged.lines[i].marker
        IN  /\ r.passed <=> (last.started = "container" /\ ~last.fault /\ exit0 /\ marked)
            /\ (last.started = "container" /\ ~last.fault /\ last.waited.raises) =>
                    (~r.passed /\ r.metrics.timeout)
            /\ (last.started # "container" \/ last.fault) =>
                    (~r.passed /\ r.metrics.error # "none")

\* run returned passed = false for a container that exited with code 0 and
\* whose logs lack VERIFICATION_SUCCESS, and passed = false for one whose
\* logs hold it and that exited with another code
C24_Witness ==
    /\ last.op = "sandbox_run"
    /\ last.started = "container" /\ ~last.fault
    /\ ~last.result.passed
    /\ ~last.waited.raises /\ ~last.logged.raises
    /\ \/ last.waited.result = <<0>> /\ Len(last.logged.lines) > 0
       \/ last.waited.result = <<1>> /\ contains_success(last.logged.lines)

\* C26: whenever SandboxRunner.run got a container, on every way out (the
\* normal return, wait raising, the log read raising, a statement of the
\* runner raising) the last two calls it made on the container are kill and
\* then remove, whether or not kill raised, and the passed it returns is the
\* one it returns when neither kill nor remove raises.
C26_KillAndRemoveAlways ==
    (last.op = "sandbox_run" /\ last.started = "container") =>
        LET calls == last.result.calls
            quiet == SandboxRunner_run(last.started, last.waited, last.logged,
                                       last.fault, FALSE, FALSE)
        IN  /\ Len(calls) >= 2
            /\ calls[Len(calls) - 1] = "kill"
            /\ calls[Len(calls)] = "remove"
            /\ Cardinality({i \in 1..Len(calls) : calls[i] \in {"kill", "remove"}}) = 2
            /\ last.result.passed = quiet.passed

\* run returned passed = true although kill raised (the container had
\* exited) and remove raised, and both were called
C26_Witness ==
    /\ last.op = "sandbox_run"
    /\ last.started = "container"
    /\ last.kill_raises /\ last.remove_raises
    /\ last.result.passed
    /\ SubSeq(last.result.calls, Len(last.result.calls) - 1, Len(last.result.calls))
          = <<"kill", "remove">>

\* C25: harness.main returns 0 and prints VERIFICATION_SUCCESS exactly when
\* the module was loaded, has verify and action, and verify() returned the
\* boolean True; in every other case (another value returned, a condition
\* raised by the module or by verify) it returns 1 and the first line it
\* prints begins with VERIFICATION_FAILED:.
C25_OnlyTrueVerifies ==
    last.op = "harness_main" =>
        LET skill == last.skill
            r == last.result
            verified == /\ skill.spec_found
                        /\ skill.exec_module.raised = NoCondition
                        /\ skill.has_verify /\ skill.has_action
                        /\ skill.verify.raised = NoCondition
                        /\ skill.verify.value = "True"
        IN  /\ (r.returns = <<0>> /\ r.printed = <<"VERIFICATION_SUCCESS">>) <=> verified
            /\ ~verified =>
                  /\ r.returns = <<1>>
                  /\ Len(r.printed) >= 1
                  /\ r.printed[1] = FAILED

(* ------------------- the evaluation gate's claims ----------------------- *)
\* C27: the GateReport run_gate returns counts every case of the set, has
\* failed_count = total - passed_count, and has gate_passed true exactly
\* when total = 0 or passed_count / total >= threshold; so an empty case set
\* passes any threshold, and with threshold 1.0 one failed case makes
\* gate_passed false.
C27_GatePassedIsTheRate ==
    gate.pc = "returned" =>
        LET r == gate.report[1] IN
        /\ r.total = Len(gate.cases)
        /\ r.passed_count = Cardinality({i \in 1..r.total : gate.results[i].passed})
        /\ r.failed_count = r.total - r.passed_count
        /\ r.gate_passed <=> (r.total = 0 \/ r.passed_count * 100 >= r.threshold * r.total)
        /\ r.total = 0 => r.gate_passed
        /\ (r.threshold = 100 /\ r.failed_count >= 1) => ~r.gate_passed

\* run_gate returned gate_passed = false at threshold 1.0 for two cases of
\* which one passed, and gate_passed = true at threshold 0.5 for the same
\* counts
C27_Witness ==
    /\ gate.pc = "returned"
    /\ gate.report[1].total = 2 /\ gate.report[1].passed_count = 1
    /\ gate.report[1].gate_passed <=> gate.threshold = 50
    /\ gate.threshold \in {50, 100}

\* C28: no condition leaves run_case: run_gate does not end by raising, and
\* a case whose skill file is missing, whose module cannot be made or
\* executed (whatever executing it raises), or whose module has no action
\* has a result with passed = false and an error.
C28_RunCaseNeverRaises ==
    /\ gate.pc # "raised"
    /\ gate.pc # "idle" =>
          \A i \in 1..Len(gate.results) :
              LET c == gate.cases[i] IN
              (~c.file \/ ~c.spec \/ c.exec_module # "returns" \/ ~c.has_action) =>
                  (~gate.results[i].passed /\ gate.results[i].error # "None")

\* C29: a run_gate that was called returns (or ends), whatever its cases'
\* actions do, and the result of a case whose action never returns by
\* itself records the error "timeout".
C29_RunGateTerminates ==
    /\ (gate.pc # "idle") ~> (gate.pc \in {"returned", "raised"})
    /\ [](gate.pc # "idle" =>
            \A i \in 1..Len(gate.results) :
                gate.cases[i].action \in {"loops", "swallows"} =>
                    gate.results[i].error = "timeout")

(* ------------------- the audit log's claims ------------------------------ *)
\* the places of the line ends in the audit log file, and the first place of
\* the line that ends at e
Ends == {e \in 1..Len(writers.file) : writers.file[e].ch = "\n"}

start(e) == 1 + Cardinality({i \in 1..(e - 1) : \E f \in Ends : i <= f /\ f < e})

\* C30: with several writers in log at once, the file is made of complete
\* lines, every line holds characters of one call only, every call that
\* returned has exactly one line in the file, and a step never alters or
\* removes what the file held: it only appends.
C30_OneWholeLinePerCall ==
    /\ [](/\ Len(writers.file) > 0 => writers.file[Len(writers.file)].ch = "\n"
          /\ \A e \in Ends : \A i \in start(e)..e : writers.file[i].call = writers.file[e].call
          /\ \A c \in writers.returned : Cardinality({e \in Ends : writers.file[e].call = c}) = 1)
    /\ [][/\ Len(writers.file') >= Len(writers.file)
          /\ SubSeq(writers.file', 1, Len(writers.file)) = writers.file]_vars

(* ------------------- the skill loader's claims --------------------------- *)
\* C31: load(name) without a version pin raises ValueError when the registry
\* has no current_prod for the skill, and otherwise (the directory of that
\* version being in prod) returns the LoadedSkill of the version that is
\* current_prod in the registry file at the time of the call, whatever was
\* loaded before a promote or rollback changed it.
C31_LoadFollowsCurrentProd ==
    (last.op = "load" /\ last.version = None) =>
        LET current_prod == IF last.name \in DOMAIN registry.skills
                            THEN registry.skills[last.name].current_prod
                            ELSE None
        IN IF current_prod = None
           THEN last.result = "ValueError"
           ELSE <<last.name, current_prod>> \in DOMAIN prod_tree =>
                   /\ last.result = "returned"
                   /\ last.loaded[1].name = last.name
                   /\ last.loaded[1].version = current_prod

\* C39: load(name, version) on a version whose directory is in prod returns
\* a LoadedSkill whose module is the code now stored in that directory,
\* also when promote_skill replaced the directory after an earlier load.
C39_LoadReflectsProdDirectory ==
    (/\ last.op = "load"
     /\ last.version # None
     /\ <<last.name, last.version>> \in DOMAIN prod_tree) =>
        /\ last.result = "returned"
        /\ last.loaded[1].module = prod_tree[<<last.name, last.version>>].code

(* ------------------- the day logger's claims ------------------------------ *)
\* how often the dedup key is observed in the pairs given to build_queue,
\* and the place of its first observation
observations(capabilities, key) ==
    Cardinality({i \in 1..Len(capabilities) : capabilities[i][1].key = key})

first(capabilities, key) ==
    CHOOSE i \in 1..Len(capabilities) :
        /\ capabilities[i][1].key = key
        /\ \A j \in 1..(i - 1) : capabilities[j][1].key # key

\* C32: the queue build_queue returns has one item per dedup key; an item
\* of the existing queue keeps its place, id, status, context and
\* capability text, and its occurrences grow by the number of times its key
\* is observed; a key observed that the existing queue lacks gets one new
\* pending item with the first observed spelling, stripped, and as many
\* occurrences as observations.
C32_OneItemPerKey ==
    [][last'.op = "build_queue" =>
        LET existing == queue_file.items
            items == queue_file'.items
            capabilities == last'.capabilities
            keys(q) == {q[i].capability.key : i \in 1..Len(q)}
            observed == {capabilities[i][1].key : i \in 1..Len(capabilities)}
        IN  /\ \A i, j \in 1..Len(items) :
                   items[i].capability.key = items[j].capability.key => i = j
            /\ keys(items) = keys(existing) \cup observed
            /\ Len(items) >= Len(existing)
            /\ \A i \in 1..Len(existing) :
                   items[i] = [existing[i] EXCEPT !.occurrences =
                                  @ + observations(capabilities, existing[i].capability.key)]
            /\ \A i \in (Len(existing) + 1)..Len(items) :
                   LET key == items[i].capability.key IN
                   /\ key \in observed \ keys(existing)
                   /\ items[i].status = "pending"
                   /\ items[i].occurrences = observations(capabilities, key)
                   /\ items[i].capability
                         = [capabilities[first(capabilities, key)][1] EXCEPT !.padded = FALSE]
                   /\ \A j \in 1..Len(existing) : existing[j].id # items[i].id
    ]_vars

\* build_queue, given two observations that differ, returned a queue in
\* which a completed item, observed in another spelling than its own, is
\* still completed and has one more occurrence
C32_Witness ==
    /\ last.op = "build_queue"
    /\ Len(last.capabilities) = 2
    /\ last.capabilities[1][1] # last.capabilities[2][1]
    /\ \E i \in 1..Len(queue_file.items) :
           /\ queue_file.items[i].status = "completed"
           /\ queue_file.items[i].occurrences = 2
           /\ \E j \in 1..2 :
                  /\ last.capabilities[j][1].key = queue_file.items[i].capability.key
                  /\ last.capabilities[j][1].upper # queue_file.items[i].capability.upper

(* ------------------- the validators' claims ------------------------------- *)
\* C33: validate_manifest returns is_valid = false and, among its errors,
\* the MVP-constraint error of each of permissions.network and
\* permissions.subprocess that is true, whether or not the manifest
\* satisfies the schema; and is_valid is true exactly when the error list
\* is empty.
C33_MvpConstraintsAlwaysChecked ==
    last.op = "validate_manifest" =>
        LET errors == last.result.errors
            has(error) == \E i \in 1..Len(errors) : errors[i] = error
        IN  /\ last.result.is_valid <=> errors = << >>
            /\ last.manifest.network <=> has("MVP constraint violation: network must be False")
            /\ last.manifest.subprocess
                  <=> has("MVP constraint violation: subprocess must be False")
            /\ (last.manifest.network \/ last.manifest.subprocess) => ~last.result.is_valid
            /\ ~last.manifest.schema_ok => ~last.result.is_valid

\* validate_manifest returned is_valid = false with the subprocess error
\* for a manifest that satisfies the schema, and with it and the schema
\* error for one that does not
C33_Witness ==
    /\ last.op = "validate_manifest"
    /\ last.manifest.subprocess /\ ~last.manifest.network
    /\ ~last.result.is_valid
    /\ Len(last.result.errors) = (IF last.manifest.schema_ok THEN 1 ELSE 2)

\* C34: ASTGate.check returns a GateResult for every code; passed is true
\* exactly when the violations list is empty; for code that parses the list
\* holds one violation for every pattern the textual scan finds and every
\* forbidden import, call and attribute the walk finds; for code that does
\* not parse, passed is false and the list is the one violation that starts
\* with Syntax error:, whatever the scan found.
C34_ViolationsAccumulate ==
    last.op = "check" =>
        /\ last.result.raises = "none"
        /\ LET r == last.result.returns[1]
               found == Cardinality(last.code.patterns)
                        + Cardinality({i \in 1..Len(last.code.nodes) :
                                          last.code.nodes[i] \notin {"Import", "Name"}})
           IN  /\ r.passed <=> r.violations = << >>
               /\ last.code.parse = "tree" => Len(r.violations) = found
               /\ last.code.parse # "tree" =>
                     /\ ~r.passed
                     /\ r.violations = <<"Syntax error: ">>

(* ------------------- the two rollbacks ------------------------------------ *)
\* what the claim compares of a registry: of every version its status and
\* disabled_reason, of every skill its two pointers
transition(data) ==
    [name \in DOMAIN data.skills |->
        [current_prod |-> data.skills[name].current_prod,
         current_staging |-> data.skills[name].current_staging,
         versions |-> [v \in DOMAIN data.skills[name].versions |->
                          [status |-> data.skills[name].versions[v].status,
                           disabled_reason |-> data.skills[name].versions[v].disabled_reason]]]]

\* C35: a rollback_skill(name, target) call in which no I/O step fails
\* raises ValueError exactly when Registry.rollback(name, target), started
\* from the same registry, returns False, and otherwise leaves the statuses,
\* disabled reasons and pointers that Registry.rollback leaves.
C35_RollbackSkillIsRollback ==
    [][(last'.op = "rollback_skill" /\ last'.result \in {"True", "ValueError"}) =>
        LET r == rollback(registry, last'.name, last'.version, clock) IN
        /\ last'.result = "ValueError" <=> ~r.ok
        /\ transition(IF registry_file'.state = "missing" THEN RegistryData
                      ELSE registry_file'.data) = transition(r.data)
    ]_vars

\* rollback_skill returned True and disabled the version that was prod, for
\* a target that had been prod before
C35_Witness ==
    /\ last.op = "rollback_skill" /\ last.result = "True"
    /\ registry.skills[last.name].current_prod = last.version
    /\ \E v \in DOMAIN registry.skills[last.name].versions :
           /\ v # last.version
           /\ registry.skills[last.name].versions[v].disabled_reason
                 = [kind |-> "Rollback to", version |-> last.version]

(* ------------------- the registry's pointers and disabled fields --------- *)
\* C36: in every registry add_staging, promote and rollback reach, an
\* entry's current_prod and current_staging are null or keys of its
\* versions; and no call removes a skill or a version of a skill.
C36_PointersNameVersions ==
    /\ [](\A name \in DOMAIN registry.skills :
            LET entry == registry.skills[name] IN
            /\ entry.current_prod = None \/ entry.current_prod \in DOMAIN entry.versions
            /\ entry.current_staging = None \/ entry.current_staging \in DOMAIN entry.versions)
    /\ [][\A name \in DOMAIN registry.skills :
            /\ registry_file'.state # "missing"
            /\ name \in DOMAIN registry_file'.data.skills
            /\ DOMAIN registry.skills[name].versions
                  \subseteq DOMAIN registry_file'.data.skills[name].versions]_vars

\* add_staging returned and left a skill with two versions, one of them
\* current_prod and the other current_staging
C36_Witness ==
    /\ last.op = "add_staging"
    /\ \E name \in DOMAIN registry.skills :
           LET entry == registry.skills[name] IN
           /\ Cardinality(DOMAIN entry.versions) = 2
           /\ entry.current_prod # None
           /\ entry.current_staging # None
           /\ entry.current_staging # entry.current_prod

\* C37: in every registry add_staging, promote and rollback reach, a
\* version has disabled_at and disabled_reason exactly when its status is
\* disabled; the version that is current_prod has neither.
C37_DisabledFieldsOnlyWhenDisabled ==
    \A name \in DOMAIN registry.skills :
        LET entry == registry.skills[name] IN
        /\ \A v \in DOMAIN entry.versions :
               /\ entry.versions[v].status = "disabled" <=> entry.versions[v].disabled_at # None
               /\ entry.versions[v].status = "disabled"
                     <=> entry.versions[v].disabled_reason # NoReason
        /\ (entry.current_prod # None /\ entry.current_prod \in DOMAIN entry.versions) =>
               /\ entry.versions[entry.current_prod].disabled_at = None
               /\ entry.versions[entry.current_prod].disabled_reason = NoReason

(* ------------------- evolve's summary -------------------------------------- *)
\* the items of a queue that have status
with(items, status) == {i \in 1..Len(items) : items[i].status = status}

\* C38, as stated: the summary evolve returns has processed = succeeded +
\* failed and processed + skipped = the number of items of the queue;
\* succeeded is the number of items that ended completed, skipped the number
\* of items that were not pending on entry; for an empty or missing queue the
\* four counts are 0.
C38_SucceededCountsAllCompleted ==
    [][(last'.op = "evolve" /\ last'.result = "returned" /\ run.active) =>
        LET summary == last'.summary
            before == queue_file.items
            after == queue_file'.items
            n == Len(before)
        IN  /\ Len(after) = n
            /\ summary.processed = summary.succeeded + summary.failed
            /\ summary.processed + summary.skipped = n
            /\ summary.succeeded = Cardinality(with(after, "completed"))
            /\ summary.skipped = n - Cardinality(with(before, "pending"))
            /\ n = 0 => summary = [processed |-> 0, succeeded |-> 0,
                                   failed |-> 0, skipped |-> 0]
    ]_vars

\* C38, amended: the summary evolve returns has processed = succeeded + failed
\* and processed + skipped = the number of items of the queue; succeeded is
\* the number of items that were pending on entry and ended completed, failed
\* the number that were pending on entry and ended failed, skipped the number
\* of items that were not pending on entry; for an empty or missing queue the
\* four counts are 0.
C38_SummaryCountsTheRun ==
    [][(last'.op = "evolve" /\ last'.result = "returned" /\ run.active) =>
        LET summary == last'.summary
            before == queue_file.items
            after == queue_file'.items
            n == Len(before)
        IN  /\ Len(after) = n
            /\ summary.processed = summary.succeeded + summary.failed
            /\ summary.processed + summary.skipped = n
            /\ summary.succeeded
                  = Cardinality(with(before, "pending") \cap with(after, "completed"))
            /\ summary.failed
                  = Cardinality(with(before, "pending") \cap with(after, "failed"))
            /\ summary.skipped = n - Cardinality(with(before, "pending"))
            /\ n = 0 => summary = [processed |-> 0, succeeded |-> 0,
                                   failed |-> 0, skipped |-> 0]
    ]_vars

\* evolve returned a summary for a queue of which it skipped an item that was
\* completed before and processed another to completed
C38_Witness ==
    /\ last.op = "evolve" /\ last.result = "returned"
    /\ last.summary.skipped >= 1
    /\ last.summary.succeeded >= 1
    /\ Cardinality(with(queue_file.items, "completed")) >= 2

(* ------------------- the matchers and an action that did not return ----- *)
\* the cases of the running gate whose action was invoked and raised or was
\* interrupted by the timeout, and that have their result
interrupted ==
    IF gate.pc = "idle" THEN {}
    ELSE {i \in 1..Len(gate.results) : /\ gate.cases[i].has_action
                                        /\ gate.cases[i].action # "returns"}

\* C40: a case whose action raised an error or was interrupted by the
\* timeout, so that it returned no result, is reported passed only when the
\* type of its expected output is timeout_or_error; under exact, contains,
\* no_forbidden_patterns and an unknown type it is reported failed.
C40_ErrorPassesOnlyTimeoutOrError ==
    \A i \in interrupted :
        /\ gate.results[i].error # "None"
        /\ gate.results[i].passed => gate.cases[i].expected.type = "timeout_or_error"

====
